---- MODULE Spec2Model ----
(***************************************************************************)
(* Model of the task dependency scheduler of prodflow:                     *)
(* src/src/mastra/tools/task-validation.tool.ts (the validate-tasks tool   *)
(* and its helpers findCircularDependencies, calculateCriticalPath,        *)
(* optimizeTaskExecution, generateExecutionPlan, generateRecommendations), *)
(* and of the dispatch of tasks to the generation agents in                *)
(* src/src/mastra/workflows/prod.workflow.ts (agent workflows, the         *)
(* orchestration step, artifact publishing) and in                         *)
(* src/src/mastra/agents/task-executor.agent.ts (execution coordinator).   *)
(*                                                                         *)
(* The helpers are pure functions of the task list; each is an operator    *)
(* that threads the closure state of the source (visited, recursionStack,  *)
(* cycles, phases, criticalPath) through the recursion in the order the    *)
(* source evaluates it.  The state machine draws an input task list and    *)
(* applies one operation of the tool to it, or runs the agent workflows on *)
(* it, one step of a promise at a time.                                    *)
(***************************************************************************)
EXTENDS Integers, Sequences, FiniteSets, TLC

VARIABLES
    tasks,           \* context.tasks: the input task list
    constraints,     \* context.constraints
    op,              \* the operation applied to the input ("none" before)
    outcome,         \* "pending" | "returned" | "thrown"
    cycles,          \* return value of findCircularDependencies
    dfsState,        \* closure state of findCircularDependencies at return
    criticalPath,    \* return value of calculateCriticalPath
    optimizedTasks,  \* return value of optimizeTaskExecution
    phaseState,      \* closure state of optimizeTaskExecution at return
    rerunTasks,      \* return value of optimizeTaskExecution on its own output
    executionPlan,   \* return value of generateExecutionPlan
    report,          \* validationResults of the report execute returns
    steps,           \* per category, the state of its agent workflow step
    calls,           \* per task, the state of its agent call (process*Task)
    taskResults,     \* per task, what its mapped async function resolved with
    stepResults,     \* per category, the results its step returned
    executionResults, \* the executionResults collected from the agents
    executionConfig, \* inputData.executionConfig of the workflows
    allResults,      \* inputData.allResults of the artifact-publishing step
    publishCalls,    \* per result, the state of its mapped async function
    posts,           \* per result, the calls of githubArtifactPosterTool
    publishResults,  \* per result, what its async function resolved with
    publishSummary   \* summary of the artifact-publishing step

\* the state of the validate-tasks tool and of the agent workflows
toolVars == <<cycles, dfsState, criticalPath, optimizedTasks, phaseState,
              rerunTasks, executionPlan, report>>
flowVars == <<steps, calls, taskResults, stepResults, executionResults>>
publishVars == <<allResults, publishCalls, posts, publishResults, publishSummary>>
runVars == <<executionConfig, publishVars>>

vars == <<tasks, constraints, op, outcome, toolVars, flowVars, runVars>>

(***************************************************************************)
(* Bounds of the input domain.                                             *)
(***************************************************************************)
\* ids of the tasks of an input, in input order; ids are unique (spec.md,
\* section 3: "Task id values are unique within a planning run")
TaskIds == <<"A", "B", "C", "D">>

\* an id no task of the input has
GhostId == "ghost"

\* largest total number of entries in the dependency lists of one input
MaxEdges == 4

\* largest estimatedHours of a task
MaxHours == 2

\* the estimatedHours of the inputs of the execution plan are multiples of
\* it: one task can take more than a working day of 8 hours
HoursStep == 5

\* depth of nested buildPath calls at which the engine's call stack is
\* exhausted (RangeError: Maximum call stack size exceeded); larger than
\* the depth any acyclic input of the domain needs
MaxCallStack == 8

(***************************************************************************)
(* JavaScript array helpers.                                               *)
(***************************************************************************)
Max(a, b) == IF a >= b THEN a ELSE b

\* Array.prototype.indexOf: 0-based index of the first occurrence, or -1
indexOf(arr, x) ==
    IF \E i \in 1..Len(arr) : arr[i] = x
    THEN (CHOOSE i \in 1..Len(arr) : arr[i] = x /\ \A j \in 1..(i-1) : arr[j] # x) - 1
    ELSE -1

\* Array.prototype.includes
InList(x, arr) == \E i \in 1..Len(arr) : arr[i] = x

\* Array.prototype.slice(start): a negative start counts from the end
slice(arr, start) ==
    LET from == IF start < 0 THEN Max(Len(arr) + start, 0) ELSE start
    IN  SubSeq(arr, from + 1, Len(arr))

\* tasks.find(t => t.id === taskId): index of the first match, 0 when none
find(ts, taskId) ==
    IF \E i \in 1..Len(ts) : ts[i].id = taskId
    THEN CHOOSE i \in 1..Len(ts) : ts[i].id = taskId /\ \A j \in 1..(i-1) : ts[j].id # taskId
    ELSE 0

\* new Map(tasks.map(t => [t.id, t])).get(taskId): a later entry replaces an
\* earlier one with the same key; index of the entry, 0 when none
taskMapGet(ts, taskId) ==
    IF \E i \in 1..Len(ts) : ts[i].id = taskId
    THEN CHOOSE i \in 1..Len(ts) : ts[i].id = taskId /\ \A j \in (i+1)..Len(ts) : ts[j].id # taskId
    ELSE 0

(***************************************************************************)
(* findCircularDependencies (task-validation.tool.ts:166-200)              *)
(***************************************************************************)
RECURSIVE dfs(_, _, _, _), dfsDeps(_, _, _, _, _)

\* dfs with the two guards exchanged: a visited id returns before the
\* recursion stack is looked at
dfs_VisitedFirst(ts, taskId, path, st) ==
    IF st.error # "none" THEN st
    ELSE IF st.frames >= MaxCallStack
    THEN [st EXCEPT !.error = "RangeError"]
    ELSE IF taskId \in st.visited
    THEN st
    ELSE LET st1 == [st EXCEPT !.visited = @ \cup {taskId},
                               !.recursionStack = @ \cup {taskId},
                               !.expanded = Append(@, taskId),
                               !.frames = @ + 1]
             t   == find(ts, taskId)
             st2 == IF t # 0
                    THEN dfsDeps(ts, ts[t].dependencies, 1, path \o <<taskId>>, st1)
                    ELSE st1
         IN  IF st2.error # "none" THEN st2
             ELSE [st2 EXCEPT !.recursionStack = @ \ {taskId}, !.frames = @ - 1]

\* dfs without recursionStack.delete(taskId)
dfs_NoStackDelete(ts, taskId, path, st) ==
    IF st.error # "none" THEN st
    ELSE IF st.frames >= MaxCallStack
    THEN [st EXCEPT !.error = "RangeError"]
    ELSE IF taskId \in st.recursionStack
    THEN [st EXCEPT !.cycles =
              Append(@, slice(path, indexOf(path, taskId)) \o <<taskId>>)]
    ELSE IF taskId \in st.visited
    THEN st
    ELSE LET st1 == [st EXCEPT !.visited = @ \cup {taskId},
                               !.recursionStack = @ \cup {taskId},
                               !.expanded = Append(@, taskId),
                               !.frames = @ + 1]
             t   == find(ts, taskId)
             st2 == IF t # 0
                    THEN dfsDeps(ts, ts[t].dependencies, 1, path \o <<taskId>>, st1)
                    ELSE st1
         IN  IF st2.error # "none" THEN st2
             ELSE [st2 EXCEPT !.frames = @ - 1]

\* dfs that records a cycle only while none has been recorded
dfs_FirstCycleOnly(ts, taskId, path, st) ==
    IF st.error # "none" THEN st
    ELSE IF st.frames >= MaxCallStack
    THEN [st EXCEPT !.error = "RangeError"]
    ELSE IF taskId \in st.recursionStack
    THEN IF st.cycles = <<>>
         THEN [st EXCEPT !.cycles =
                   Append(@, slice(path, indexOf(path, taskId)) \o <<taskId>>)]
         ELSE st
    ELSE IF taskId \in st.visited
    THEN st
    ELSE LET st1 == [st EXCEPT !.visited = @ \cup {taskId},
                               !.recursionStack = @ \cup {taskId},
                               !.expanded = Append(@, taskId),
                               !.frames = @ + 1]
             t   == find(ts, taskId)
             st2 == IF t # 0
                    THEN dfsDeps(ts, ts[t].dependencies, 1, path \o <<taskId>>, st1)
                    ELSE st1
         IN  IF st2.error # "none" THEN st2
             ELSE [st2 EXCEPT !.recursionStack = @ \ {taskId}, !.frames = @ - 1]

\* dfs with recursionStack.delete(taskId) inside if (task): an id that
\* names no task stays on the stack
dfs_DeleteInsideIf(ts, taskId, path, st) ==
    IF st.error # "none" THEN st
    ELSE IF st.frames >= MaxCallStack
    THEN [st EXCEPT !.error = "RangeError"]
    ELSE IF taskId \in st.recursionStack
    THEN [st EXCEPT !.cycles =
              Append(@, slice(path, indexOf(path, taskId)) \o <<taskId>>)]
    ELSE IF taskId \in st.visited
    THEN st
    ELSE LET st1 == [st EXCEPT !.visited = @ \cup {taskId},
                               !.recursionStack = @ \cup {taskId},
                               !.expanded = Append(@, taskId),
                               !.frames = @ + 1]
             t   == find(ts, taskId)
             st2 == IF t # 0
                    THEN dfsDeps(ts, ts[t].dependencies, 1, path \o <<taskId>>, st1)
                    ELSE st1
         IN  IF st2.error # "none" THEN st2
             ELSE IF t # 0
             THEN [st2 EXCEPT !.recursionStack = @ \ {taskId}, !.frames = @ - 1]
             ELSE [st2 EXCEPT !.frames = @ - 1]

\* dfs without the guard if (visited.has(taskId)) return
dfs_NoVisitedGuard(ts, taskId, path, st) ==
    IF st.error # "none" THEN st
    ELSE IF st.frames >= MaxCallStack
    THEN [st EXCEPT !.error = "RangeError"]
    ELSE IF taskId \in st.recursionStack
    THEN [st EXCEPT !.cycles =
              Append(@, slice(path, indexOf(path, taskId)) \o <<taskId>>)]
    ELSE LET st1 == [st EXCEPT !.visited = @ \cup {taskId},
                               !.recursionStack = @ \cup {taskId},
                               !.expanded = Append(@, taskId),
                               !.frames = @ + 1]
             t   == find(ts, taskId)
             st2 == IF t # 0
                    THEN dfsDeps(ts, ts[t].dependencies, 1, path \o <<taskId>>, st1)
                    ELSE st1
         IN  IF st2.error # "none" THEN st2
             ELSE [st2 EXCEPT !.recursionStack = @ \ {taskId}, !.frames = @ - 1]

\* function dfs(taskId, path); st is the closure state
\* [visited, recursionStack, cycles] together with what the properties
\* observe of the recursion: expanded, the ids that passed both guards, in
\* order; frames, the number of expanded dfs frames on the call stack;
\* error, "RangeError" once the stack is exhausted
dfs(ts, taskId, path, st) ==
    IF st.error # "none" THEN st
    ELSE IF st.frames >= MaxCallStack
    THEN [st EXCEPT !.error = "RangeError"]
    ELSE IF taskId \in st.recursionStack
    THEN [st EXCEPT !.cycles =
              Append(@, slice(path, indexOf(path, taskId)) \o <<taskId>>)]
    ELSE IF taskId \in st.visited
    THEN st
    ELSE LET st1 == [st EXCEPT !.visited = @ \cup {taskId},
                               !.recursionStack = @ \cup {taskId},
                               !.expanded = Append(@, taskId),
                               !.frames = @ + 1]
             t   == find(ts, taskId)
             st2 == IF t # 0
                    THEN dfsDeps(ts, ts[t].dependencies, 1, path \o <<taskId>>, st1)
                    ELSE st1
         IN  IF st2.error # "none" THEN st2
             ELSE [st2 EXCEPT !.recursionStack = @ \ {taskId}, !.frames = @ - 1]

\* for (const dep of task.dependencies) dfs(dep, path.concat(taskId))
dfsDeps(ts, deps, i, path, st) ==
    IF i > Len(deps) THEN st
    ELSE dfsDeps(ts, deps, i + 1, path, dfs(ts, deps[i], path, st))

RECURSIVE dfsRoots(_, _, _)
\* for (const task of tasks) if (!visited.has(task.id)) dfs(task.id, [])
dfsRoots(ts, i, st) ==
    IF i > Len(ts) THEN st
    ELSE dfsRoots(ts, i + 1,
                  IF ts[i].id \notin st.visited THEN dfs(ts, ts[i].id, <<>>, st) ELSE st)

\* the closure state when findCircularDependencies returns
findCircularDependenciesState(ts) ==
    dfsRoots(ts, 1, [visited |-> {}, recursionStack |-> {}, cycles |-> <<>>,
                     expanded |-> <<>>, frames |-> 0, error |-> "none"])

findCircularDependencies(ts) == findCircularDependenciesState(ts).cycles

(***************************************************************************)
(* calculateCriticalPath (task-validation.tool.ts:202-267)                 *)
(***************************************************************************)
RECURSIVE calculateTaskDuration(_, _, _), depDurations(_, _, _, _, _)

\* function calculateTaskDuration(taskId); `visited` is the closure's set,
\* returned with the number because the call adds to it
calculateTaskDuration(ts, taskId, visited) ==
    IF taskId \in visited
    THEN [duration |-> 0, visited |-> visited]
    ELSE LET v1 == visited \cup {taskId}
             t  == taskMapGet(ts, taskId)
         IN  IF t = 0
             THEN [duration |-> 0, visited |-> v1]
             ELSE LET m == depDurations(ts, ts[t].dependencies, 1, 0, v1)
                  IN  [duration |-> m.duration + ts[t].estimatedHours,
                       visited  |-> m.visited]

\* Math.max(0, ...task.dependencies.map(dep => calculateTaskDuration(dep)))
depDurations(ts, deps, i, acc, visited) ==
    IF i > Len(deps) THEN [duration |-> acc, visited |-> visited]
    ELSE LET r == calculateTaskDuration(ts, deps[i], visited)
         IN  depDurations(ts, deps, i + 1, Max(acc, r.duration), r.visited)

RECURSIVE findCriticalTask(_, _, _, _)
\* the loop "Find tasks with longest path": visited.clear() before each task
findCriticalTask(ts, i, maxDuration, criticalTaskId) ==
    IF i > Len(ts)
    THEN [maxDuration |-> maxDuration, criticalTaskId |-> criticalTaskId]
    ELSE LET duration == calculateTaskDuration(ts, ts[i].id, {}).duration
         IN  IF duration > maxDuration
             THEN findCriticalTask(ts, i + 1, duration, ts[i].id)
             ELSE findCriticalTask(ts, i + 1, maxDuration, criticalTaskId)

RECURSIVE findCriticalDep(_, _, _, _, _)
\* the loop "Find dependency with longest duration" of buildPath
findCriticalDep(ts, deps, i, maxDepDuration, criticalDep) ==
    IF i > Len(deps) THEN criticalDep
    ELSE LET duration == calculateTaskDuration(ts, deps[i], {}).duration
         IN  IF duration > maxDepDuration
             THEN findCriticalDep(ts, deps, i + 1, duration, deps[i])
             ELSE findCriticalDep(ts, deps, i + 1, maxDepDuration, criticalDep)

RECURSIVE buildPath(_, _, _, _)
\* buildPath with criticalPath.push in place of criticalPath.unshift
buildPath_Push(ts, taskId, path, depth) ==
    IF depth > MaxCallStack
    THEN [path |-> path, error |-> "RangeError"]
    ELSE LET t == taskMapGet(ts, taskId)
         IN  IF t = 0
             THEN [path |-> path, error |-> "none"]
             ELSE LET p1 == path \o <<taskId>>
                      criticalDep == findCriticalDep(ts, ts[t].dependencies, 1, 0, "")
                  IN  IF Len(ts[t].dependencies) > 0 /\ criticalDep # ""
                      THEN buildPath(ts, criticalDep, p1, depth + 1)
                      ELSE [path |-> p1, error |-> "none"]

\* function buildPath(taskId); path is the closure's criticalPath, depth the
\* number of buildPath frames on the call stack
buildPath(ts, taskId, path, depth) ==
    IF depth > MaxCallStack
    THEN [path |-> path, error |-> "RangeError"]
    ELSE LET t == taskMapGet(ts, taskId)
         IN  IF t = 0
             THEN [path |-> path, error |-> "none"]
             ELSE LET p1 == <<taskId>> \o path
                      criticalDep == findCriticalDep(ts, ts[t].dependencies, 1, 0, "")
                  IN  IF Len(ts[t].dependencies) > 0 /\ criticalDep # ""
                      THEN buildPath(ts, criticalDep, p1, depth + 1)
                      ELSE [path |-> p1, error |-> "none"]

\* [path, error]: the returned criticalPath, or error "RangeError" when the
\* recursion of buildPath exhausts the call stack
calculateCriticalPath(ts) ==
    LET c == findCriticalTask(ts, 1, 0, "")
    IN  IF c.criticalTaskId # ""
        THEN buildPath(ts, c.criticalTaskId, <<>>, 1)
        ELSE [path |-> <<>>, error |-> "none"]

(***************************************************************************)
(* optimizeTaskExecution (task-validation.tool.ts:269-310)                 *)
(*                                                                         *)
(* The closure state st of one call is [phases, visited], created empty by *)
(* every call (lines 271-272).  It is threaded together with what the      *)
(* properties observe of the recursion: frames, the number of assignPhase  *)
(* frames on the call stack; error, "RangeError" once the stack is         *)
(* exhausted; fallbacks, the [id, phase] pairs the guard "Circular         *)
(* dependency fallback" of line 276 has returned.                          *)
(***************************************************************************)
RECURSIVE assignPhase(_, _, _), assignDepPhases(_, _, _, _, _)

\* assignPhase with maxDepPhase initialised to 1
assignPhase_StartAtOne(ts, taskId, st) ==
    IF st.error # "none" THEN [phase |-> 0, st |-> st]
    ELSE IF st.frames >= MaxCallStack
    THEN [phase |-> 0, st |-> [st EXCEPT !.error = "RangeError"]]
    ELSE IF taskId \in DOMAIN st.phases
    THEN [phase |-> st.phases[taskId], st |-> st]
    ELSE IF taskId \in st.visited
    THEN [phase |-> 1,
          st    |-> [st EXCEPT !.fallbacks = @ \cup {[id |-> taskId, phase |-> 1]}]]
    ELSE LET st1 == [st EXCEPT !.visited = @ \cup {taskId}]
             t   == taskMapGet(ts, taskId)
         IN  IF t = 0
             THEN [phase |-> 1, st |-> st1]
             ELSE LET r     == assignDepPhases(ts, ts[t].dependencies, 1, 1,
                                               [st1 EXCEPT !.frames = @ + 1])
                      phase == r.phase + 1
                  IN  IF r.st.error # "none" THEN [phase |-> 0, st |-> r.st]
                      ELSE [phase |-> phase,
                            st    |-> [r.st EXCEPT !.phases  = (taskId :> phase) @@ @,
                                                   !.visited = @ \ {taskId},
                                                   !.frames  = @ - 1]]

\* assignPhase without the guard of line 276
assignPhase_NoVisitedGuard(ts, taskId, st) ==
    IF st.error # "none" THEN [phase |-> 0, st |-> st]
    ELSE IF st.frames >= MaxCallStack
    THEN [phase |-> 0, st |-> [st EXCEPT !.error = "RangeError"]]
    ELSE IF taskId \in DOMAIN st.phases
    THEN [phase |-> st.phases[taskId], st |-> st]
    ELSE LET st1 == [st EXCEPT !.visited = @ \cup {taskId}]
             t   == taskMapGet(ts, taskId)
         IN  IF t = 0
             THEN [phase |-> 1, st |-> st1]
             ELSE LET r     == assignDepPhases(ts, ts[t].dependencies, 1, 0,
                                               [st1 EXCEPT !.frames = @ + 1])
                      phase == r.phase + 1
                  IN  IF r.st.error # "none" THEN [phase |-> 0, st |-> r.st]
                      ELSE [phase |-> phase,
                            st    |-> [r.st EXCEPT !.phases  = (taskId :> phase) @@ @,
                                                   !.visited = @ \ {taskId},
                                                   !.frames  = @ - 1]]

\* assignPhase with the guard of line 276 returning 0
assignPhase_FallbackZero(ts, taskId, st) ==
    IF st.error # "none" THEN [phase |-> 0, st |-> st]
    ELSE IF st.frames >= MaxCallStack
    THEN [phase |-> 0, st |-> [st EXCEPT !.error = "RangeError"]]
    ELSE IF taskId \in DOMAIN st.phases
    THEN [phase |-> st.phases[taskId], st |-> st]
    ELSE IF taskId \in st.visited
    THEN [phase |-> 0,
          st    |-> [st EXCEPT !.fallbacks = @ \cup {[id |-> taskId, phase |-> 0]}]]
    ELSE LET st1 == [st EXCEPT !.visited = @ \cup {taskId}]
             t   == taskMapGet(ts, taskId)
         IN  IF t = 0
             THEN [phase |-> 1, st |-> st1]
             ELSE LET r     == assignDepPhases(ts, ts[t].dependencies, 1, 0,
                                               [st1 EXCEPT !.frames = @ + 1])
                      phase == r.phase + 1
                  IN  IF r.st.error # "none" THEN [phase |-> 0, st |-> r.st]
                      ELSE [phase |-> phase,
                            st    |-> [r.st EXCEPT !.phases  = (taskId :> phase) @@ @,
                                                   !.visited = @ \ {taskId},
                                                   !.frames  = @ - 1]]

\* function assignPhase(taskId) (lines 274-293).  A call that finds the
\* stack exhausted, or follows one that did, unwinds with the error.
assignPhase(ts, taskId, st) ==
    IF st.error # "none" THEN [phase |-> 0, st |-> st]
    ELSE IF st.frames >= MaxCallStack
    THEN [phase |-> 0, st |-> [st EXCEPT !.error = "RangeError"]]
    ELSE IF taskId \in DOMAIN st.phases
    THEN [phase |-> st.phases[taskId], st |-> st]
    ELSE IF taskId \in st.visited
    THEN [phase |-> 1,
          st    |-> [st EXCEPT !.fallbacks = @ \cup {[id |-> taskId, phase |-> 1]}]]
    ELSE LET st1 == [st EXCEPT !.visited = @ \cup {taskId}]
             t   == taskMapGet(ts, taskId)
         IN  IF t = 0
             THEN [phase |-> 1, st |-> st1]
             ELSE LET r     == assignDepPhases(ts, ts[t].dependencies, 1, 0,
                                               [st1 EXCEPT !.frames = @ + 1])
                      phase == r.phase + 1
                  IN  IF r.st.error # "none" THEN [phase |-> 0, st |-> r.st]
                      ELSE [phase |-> phase,
                            st    |-> [r.st EXCEPT !.phases  = (taskId :> phase) @@ @,
                                                   !.visited = @ \ {taskId},
                                                   !.frames  = @ - 1]]

\* the loop left after the first dependency
assignDepPhases_FirstDep(ts, deps, i, maxDepPhase, st) ==
    IF i > Len(deps) \/ i > 1 THEN [phase |-> maxDepPhase, st |-> st]
    ELSE LET r == assignPhase(ts, deps[i], st)
         IN  assignDepPhases(ts, deps, i + 1, Max(maxDepPhase, r.phase), r.st)

\* the loop with maxDepPhase = assignPhase(dep): the last dependency wins
assignDepPhases_LastDep(ts, deps, i, maxDepPhase, st) ==
    IF i > Len(deps) THEN [phase |-> maxDepPhase, st |-> st]
    ELSE LET r == assignPhase(ts, deps[i], st)
         IN  assignDepPhases(ts, deps, i + 1, r.phase, r.st)

\* for (const dep of task.dependencies)
\*   maxDepPhase = Math.max(maxDepPhase, assignPhase(dep))
assignDepPhases(ts, deps, i, maxDepPhase, st) ==
    IF i > Len(deps) THEN [phase |-> maxDepPhase, st |-> st]
    ELSE LET r == assignPhase(ts, deps[i], st)
         IN  assignDepPhases(ts, deps, i + 1, Max(maxDepPhase, r.phase), r.st)

RECURSIVE assignAllPhases(_, _, _)
\* for (const task of tasks) assignPhase(task.id)
assignAllPhases(ts, i, st) ==
    IF i > Len(ts) THEN st
    ELSE assignAllPhases(ts, i + 1, assignPhase(ts, ts[i].id, st).st)

\* the closure state after the loop "Assign phases to all tasks"
assignedPhases(ts) ==
    assignAllPhases(ts, 1, [phases    |-> [x \in {} |-> 0],
                            visited   |-> {},
                            frames    |-> 0,
                            error     |-> "none",
                            fallbacks |-> {}])

\* the phases map after that loop
phasesOf(ts) == assignedPhases(ts).phases

\* phases.get(id) || 1
phaseOrOne(phases, id) ==
    IF id \in DOMAIN phases /\ phases[id] # 0 THEN phases[id] ELSE 1

\* optimizeTaskExecution with canStartInParallel: samePhaseTasks.length > 0
optimizeTaskExecution_AtLeastOne(ts) ==
    LET st     == assignedPhases(ts)
        phases == st.phases
    IN  IF st.error # "none"
        THEN [error |-> st.error, tasks |-> <<>>]
        ELSE [error |-> "none",
              tasks |->
                [i \in 1..Len(ts) |->
                    LET phase == phaseOrOne(phases, ts[i].id)
                        samePhaseTasks ==
                            {j \in 1..Len(ts) : ts[j].id \in DOMAIN phases
                                                /\ phases[ts[j].id] = phase}
                    IN  [phase |-> phase,
                         canStartInParallel |-> Cardinality(samePhaseTasks) > 0]
                        @@ ts[i]]]

\* optimizeTaskExecution with samePhaseTasks filtered on t.phase, the
\* annotation a task of the input carries, instead of phases.get(t.id)
optimizeTaskExecution_OwnPhaseField(ts) ==
    LET st     == assignedPhases(ts)
        phases == st.phases
    IN  IF st.error # "none"
        THEN [error |-> st.error, tasks |-> <<>>]
        ELSE [error |-> "none",
              tasks |->
                [i \in 1..Len(ts) |->
                    LET phase == phaseOrOne(phases, ts[i].id)
                        samePhaseTasks ==
                            {j \in 1..Len(ts) : "phase" \in DOMAIN ts[j]
                                                /\ ts[j].phase = phase}
                    IN  [phase |-> phase,
                         canStartInParallel |-> Cardinality(samePhaseTasks) > 1]
                        @@ ts[i]]]

\* [error, tasks]: tasks is the returned list, { ...task, phase,
\* canStartInParallel } for every task of the input (the two annotations
\* replace fields of the same name that the task already has); error is
\* "RangeError" when the recursion of assignPhase exhausts the call stack
optimizeTaskExecution(ts) ==
    LET st     == assignedPhases(ts)
        phases == st.phases
    IN  IF st.error # "none"
        THEN [error |-> st.error, tasks |-> <<>>]
        ELSE [error |-> "none",
              tasks |->
                [i \in 1..Len(ts) |->
                    LET phase == phaseOrOne(phases, ts[i].id)
                        samePhaseTasks ==
                            {j \in 1..Len(ts) : ts[j].id \in DOMAIN phases
                                                /\ phases[ts[j].id] = phase}
                    IN  [phase |-> phase,
                         canStartInParallel |-> Cardinality(samePhaseTasks) > 1]
                        @@ ts[i]]]

(***************************************************************************)
(* generateExecutionPlan (task-validation.tool.ts:312-351)                 *)
(***************************************************************************)
RECURSIVE distinctInOrder(_, _, _)
\* the keys of a Map (the elements of a Set) in insertion order: the values
\* of arr in order of first occurrence
distinctInOrder(arr, i, acc) ==
    IF i > Len(arr) THEN acc
    ELSE distinctInOrder(arr, i + 1,
                         IF \E k \in 1..Len(acc) : acc[k] = arr[i]
                         THEN acc ELSE Append(acc, arr[i]))

RECURSIVE filterPhase(_, _, _, _)
\* phaseMap.get(phase): the tasks pushed for that phase, in input order
filterPhase(ots, phase, i, acc) ==
    IF i > Len(ots) THEN acc
    ELSE filterPhase(ots, phase, i + 1,
                     IF ots[i].phase = phase THEN Append(acc, ots[i]) ELSE acc)

RECURSIVE maxHours(_, _)
\* Math.min in place of Math.max
maxHours_Min(ts, i) ==
    IF i = Len(ts) THEN ts[i].estimatedHours
    ELSE LET rest == maxHours(ts, i + 1)
         IN  IF ts[i].estimatedHours <= rest THEN ts[i].estimatedHours ELSE rest

\* the sum of the hours of the phase in place of their maximum
maxHours_Sum(ts, i) ==
    IF i = Len(ts) THEN ts[i].estimatedHours
    ELSE ts[i].estimatedHours + maxHours(ts, i + 1)

\* Math.max(...tasks.map(t => t.estimatedHours)) of a non-empty list
maxHours(ts, i) ==
    IF i = Len(ts) THEN ts[i].estimatedHours
    ELSE Max(ts[i].estimatedHours, maxHours(ts, i + 1))

RECURSIVE sumPhaseHours(_, _)
\* phases.reduce((sum, phase) => sum + phase.estimatedHours, 0)
sumPhaseHours(phases, i) ==
    IF i > Len(phases) THEN 0
    ELSE phases[i].estimatedHours + sumPhaseHours(phases, i + 1)

\* constraints?.teamSize || 1; cs is the optional constraints object
\* (<<>> when undefined, <<c>> when given)
teamSizeOf(cs) ==
    IF Len(cs) = 1 /\ "teamSize" \in DOMAIN cs[1] /\ cs[1].teamSize # 0
    THEN cs[1].teamSize ELSE 1

\* Math.ceil(a / b) for integers a >= 0, b > 0
ceilDiv(a, b) == (a + b - 1) \div b

generateExecutionPlan(ots, cs) ==
    LET phaseKeys == distinctInOrder([i \in 1..Len(ots) |-> ots[i].phase], 1, <<>>)
        phases ==
            [k \in 1..Len(phaseKeys) |->
                LET phaseTasks == filterPhase(ots, phaseKeys[k], 1, <<>>)
                IN  [phase          |-> phaseKeys[k],
                     tasks          |-> [i \in 1..Len(phaseTasks) |-> phaseTasks[i].id],
                     estimatedHours |-> maxHours(phaseTasks, 1),
                     description    |->
                         [phase      |-> phaseKeys[k],
                          categories |->
                              distinctInOrder(
                                  [i \in 1..Len(phaseTasks) |-> phaseTasks[i].category],
                                  1, <<>>)]]]
        teamSize           == teamSizeOf(cs)
        totalParallelHours == sumPhaseHours(phases, 1)
        estimatedDays      == ceilDiv(totalParallelHours, teamSize * 8)
    IN  [phases            |-> phases,
         totalPhases       |-> Len(phases),
         estimatedDuration |-> [days |-> estimatedDays]]

(***************************************************************************)
(* Strings are sequences of one-character strings.                         *)
(***************************************************************************)
\* String.prototype.toLowerCase on the alphabet the inputs use
toLowerCase(str) ==
    [i \in 1..Len(str) |->
        CASE str[i] = "A" -> "a"
          [] str[i] = "B" -> "b"
          [] str[i] = "D" -> "d"
          [] str[i] = "I" -> "i"
          [] str[i] = "P" -> "p"
          [] str[i] = "U" -> "u"
          [] OTHER -> str[i]]

\* String.prototype.includes: sub occurs in str as a contiguous substring
includes(str, sub) ==
    \E k \in 0..(Len(str) - Len(sub)) : SubSeq(str, k + 1, k + Len(sub)) = sub

(***************************************************************************)
(* taskValidationTool.execute (task-validation.tool.ts:63-162)             *)
(* The optional arrays of constraints are sequences, <<>> when absent:     *)
(* the source treats an absent and an empty array alike (x && x.length>0). *)
(***************************************************************************)
RECURSIVE dependencyIssues_NoRepeat(_, _, _, _)
\* the dependency check over the distinct ids of the list: a repeated entry
\* is reported once
dependencyIssues_NoRepeat(ts, task, i, acc) ==
    IF i > Len(task.dependencies) THEN acc
    ELSE LET depId     == task.dependencies[i]
             depExists == \E k \in 1..Len(ts) : ts[k].id = depId
             seen      == \E k \in 1..(i - 1) : task.dependencies[k] = depId
         IN  dependencyIssues_NoRepeat(ts, task, i + 1,
                 IF ~depExists /\ ~seen
                 THEN Append(acc,
                        [type       |-> "error",
                         taskId     |-> task.id,
                         message    |-> [template |-> "depends on non-existent task",
                                         title    |-> task.title,
                                         depId    |-> depId],
                         suggestion |-> "Remove invalid dependency or add the missing task"])
                 ELSE acc)

RECURSIVE dependencyIssues(_, _, _, _)
\* task.dependencies.forEach(depId => ...): one error per entry that no
\* task has as its id
dependencyIssues(ts, task, i, acc) ==
    IF i > Len(task.dependencies) THEN acc
    ELSE LET depId     == task.dependencies[i]
             depExists == \E k \in 1..Len(ts) : ts[k].id = depId
         IN  dependencyIssues(ts, task, i + 1,
                 IF ~depExists
                 THEN Append(acc,
                        [type       |-> "error",
                         taskId     |-> task.id,
                         message    |-> [template |-> "depends on non-existent task",
                                         title    |-> task.title,
                                         depId    |-> depId],
                         suggestion |-> "Remove invalid dependency or add the missing task"])
                 ELSE acc)

\* the issues one iteration of tasks.forEach(task => ...) pushes
taskIssues(ts, cs, task) ==
    LET technicalConstraints == IF Len(cs) = 1 THEN cs[1].technicalConstraints ELSE <<>>
        hasConstraintViolation ==
            \E c \in 1..Len(technicalConstraints) :
                \/ includes(toLowerCase(task.title), toLowerCase(technicalConstraints[c]))
                \/ includes(toLowerCase(task.description),
                            toLowerCase(technicalConstraints[c]))
        constraintIssue ==
            IF Len(technicalConstraints) > 0 /\ hasConstraintViolation
            THEN <<[type       |-> "warning",
                    taskId     |-> task.id,
                    message    |-> [template |-> "may conflict with technical constraints",
                                    title    |-> task.title],
                    suggestion |-> "Review task requirements against technical constraints"]>>
            ELSE <<>>
        criteriaIssue ==
            IF Len(task.acceptanceCriteria) = 0
            THEN <<[type       |-> "warning",
                    taskId     |-> task.id,
                    message    |-> [template |-> "has no acceptance criteria",
                                    title    |-> task.title],
                    suggestion |-> "Add specific acceptance criteria for this task"]>>
            ELSE <<>>
    IN  constraintIssue \o dependencyIssues(ts, task, 1, <<>>) \o criteriaIssue

RECURSIVE allTaskIssues(_, _, _)
\* tasks.forEach(task => ...) (lines 74-113)
allTaskIssues(ts, cs, i) ==
    IF i > Len(ts) THEN <<>>
    ELSE taskIssues(ts, cs, ts[i]) \o allTaskIssues(ts, cs, i + 1)

RECURSIVE filterSeq(_, _, _)
\* arr.filter over a sequence, keep being the set of indexes kept
filterSeq(arr, keep, i) ==
    IF i > Len(arr) THEN <<>>
    ELSE (IF i \in keep THEN <<arr[i]>> ELSE <<>>) \o filterSeq(arr, keep, i + 1)

\* "Validate AI capabilities" (lines 116-127)
capabilityIssues(ts, cs) ==
    LET requiredCapabilities == IF Len(cs) = 1 THEN cs[1].requiredCapabilities ELSE <<>>
        missing ==
            {c \in 1..Len(requiredCapabilities) :
                ~\E k \in 1..Len(ts) :
                    includes(toLowerCase(ts[k].title),
                             toLowerCase(requiredCapabilities[c]))}
        missingCapabilities == filterSeq(requiredCapabilities, missing, 1)
    IN  IF Len(requiredCapabilities) > 0 /\ Len(missingCapabilities) > 0
        THEN <<[type       |-> "warning",
                message    |-> [template |-> "Missing tasks for required capabilities",
                                missing  |-> missingCapabilities],
                suggestion |-> "Add tasks to cover all required AI capabilities"]>>
        ELSE <<>>

\* circularDeps.forEach(cycle => issues.push(...)) (lines 131-137)
cycleIssues(circularDeps) ==
    [k \in 1..Len(circularDeps) |->
        [type       |-> "error",
         message    |-> [template |-> "Circular dependency detected",
                         cycle    |-> circularDeps[k]],
         suggestion |-> "Remove or restructure dependencies to eliminate cycles"]]

\* number of tasks satisfying a predicate given as the set of its indexes
count(S) == Cardinality(S)

\* generateRecommendations (lines 353-388)
generateRecommendations(ts) ==
    LET idx          == 1..Len(ts)
        largeTasks   == count({i \in idx : ts[i].estimatedHours > 16})
        senior       == count({i \in idx : ts[i].skillLevel = "senior"})
        junior       == count({i \in idx : ts[i].skillLevel = "junior"})
        mid          == count({i \in idx : ts[i].skillLevel = "mid"})
        parallel     == count({i \in idx : Len(ts[i].dependencies) = 0})
        testing      == count({i \in idx : ts[i].category = "testing"})
        development  == count({i \in idx : ts[i].category \in {"frontend", "backend"}})
        docs         == count({i \in idx : ts[i].category = "documentation"})
    IN  (IF largeTasks > 0
         THEN <<[template |-> "Consider breaking down large tasks", n |-> largeTasks]>>
         ELSE <<>>)
        \o \* a skill level no task has reads as undefined: the sum or the
           \* comparison is then NaN and the test false
           (IF senior > 0 /\ junior > 0 /\ mid > 0 /\ senior > junior + mid
            THEN <<[template |-> "Consider delegating", n |-> 0]>>
            ELSE <<>>)
        \o (IF parallel > 1
            THEN <<[template |-> "tasks can be started in parallel", n |-> parallel]>>
            ELSE <<>>)
        \o (IF 10 * testing < 3 * development
            THEN <<[template |-> "Consider adding more testing tasks", n |-> 0]>>
            ELSE <<>>)
        \o (IF docs = 0
            THEN <<[template |-> "Consider adding documentation tasks", n |-> 0]>>
            ELSE <<>>)

RECURSIVE sumHours(_, _)
\* tasks.reduce((sum, task) => sum + task.estimatedHours, 0)
sumHours(ts, i) ==
    IF i > Len(ts) THEN 0 ELSE ts[i].estimatedHours + sumHours(ts, i + 1)

\* issues.length === 0: a warning counts like an error
isValidOf_AnyIssue(issues) == Len(issues) = 0

\* issues.filter(i => i.type === 'error').length === 0
isValidOf(issues) == ~\E k \in 1..Len(issues) : issues[k].type = "error"

\* the keys of the constraints object of the input schema (lines 19-24)
ConstraintKeys ==
    {"requiredCapabilities", "technicalConstraints", "integrationPoints",
     "performanceRequirements"}

\* the constraints the handler receives from a caller's constraints: parsed
\* by the input schema, a z.object, which keeps the declared keys and
\* strips every other key
parseConstraints(cs) ==
    IF Len(cs) = 0 THEN <<>>
    ELSE <<[k \in (DOMAIN cs[1]) \cap ConstraintKeys |-> cs[1][k]]>>

\* execute: [error, ...]; error is "RangeError" when calculateCriticalPath
\* exhausts the call stack, and then the promise rejects and nothing is
\* returned; otherwise the locals and the returned report
execute(ts, cs) ==
    LET totalHours     == sumHours(ts, 1)
        detector       == findCircularDependenciesState(ts)
        circularDeps   == detector.cycles
        issues         == allTaskIssues(ts, cs, 1) \o capabilityIssues(ts, cs)
                          \o cycleIssues(circularDeps)
        cp             == calculateCriticalPath(ts)
        optimized      == optimizeTaskExecution(ts)
        plan           == generateExecutionPlan(optimized.tasks, cs)
    IN  IF detector.error # "none"
        THEN [error |-> detector.error, circularDeps |-> <<>>]
        ELSE IF cp.error # "none"
        THEN [error |-> cp.error, circularDeps |-> circularDeps]
        ELSE IF optimized.error # "none"
        THEN [error |-> optimized.error, circularDeps |-> circularDeps]
        ELSE [error            |-> "none",
              circularDeps     |-> circularDeps,
              validationResults |->
                  [isValid         |-> isValidOf(issues),
                   totalHours      |-> totalHours,
                   criticalPath    |-> cp.path,
                   issues          |-> issues,
                   recommendations |-> generateRecommendations(ts)],
              optimizedTasks   |-> optimized.tasks,
              phaseState       |-> assignedPhases(ts),
              executionPlan    |-> plan]

(***************************************************************************)
(* The inputs.                                                             *)
(***************************************************************************)
\* the sequences over S of length at most n
SeqsUpTo(S, n) == UNION {[1..k -> S] : k \in 0..n}

RECURSIVE DepAssignments(_, _, _)
\* the ways to give n tasks dependency lists over ids D with at most
\* `budget` entries in total
DepAssignments(n, D, budget) ==
    IF n = 0 THEN {<<>>}
    ELSE UNION {{Append(rest, d) : rest \in DepAssignments(n - 1, D, budget - Len(d))} :
                d \in SeqsUpTo(D, budget)}

RECURSIVE DistinctDepAssignments(_, _, _)
\* the same, each list naming distinct tasks other than its own (task n
\* has id TaskIds[n])
DistinctDepAssignments(n, D, budget) ==
    IF n = 0 THEN {<<>>}
    ELSE UNION {{Append(rest, d) :
                    rest \in DistinctDepAssignments(n - 1, D, budget - Len(d))} :
                d \in {l \in SeqsUpTo(D \ {TaskIds[n]}, budget) :
                          \A i, j \in 1..Len(l) : i # j => l[i] # l[j]}}

\* a task record of the input schema (lines 8-18)
Task(id, title, hours, deps, criteria) ==
    [id                 |-> id,
     title              |-> title,
     description        |-> <<"d">>,
     category           |-> "backend",
     priority           |-> "medium",
     estimatedHours     |-> hours,
     skillLevel         |-> "mid",
     dependencies       |-> deps,
     acceptanceCriteria |-> criteria]

\* the ids a dependency list of an input of n tasks draws from
DepIds(n) == {TaskIds[i] : i \in 1..n} \cup {GhostId}

\* inputs that vary the dependency graph (dangling ids, repeated entries,
\* self-dependencies and cycles included); every task takes one hour
GraphInput(n, d) ==
    [i \in 1..n |-> Task(TaskIds[i], <<"t">>, 1, d[i], <<"done">>)]

\* inputs that vary the hours over graphs with resolved dependencies
HoursInput(n, d, h) ==
    [i \in 1..n |-> Task(TaskIds[i], <<"t">>, h[i], d[i], <<"done">>)]

\* titles and constraint keywords of the inputs that vary the warnings
Titles == {<<"A", "P", "I">>, <<"u", "i">>}
ConstraintInputs ==
    {<<>>,
     <<[technicalConstraints |-> <<>>, requiredCapabilities |-> <<>>]>>,
     <<[technicalConstraints |-> <<<<"a", "p", "i">>>>, requiredCapabilities |-> <<>>]>>,
     <<[technicalConstraints |-> <<>>, requiredCapabilities |-> <<<<"U", "I">>, <<"d", "b">>>>]>>,
     <<[technicalConstraints |-> <<<<"a", "p", "i">>>>,
        requiredCapabilities |-> <<<<"U", "I">>, <<"d", "b">>>>]>>}

\* inputs that vary what the report depends on: the graph, zero and
\* positive hours, the acceptance criteria, the titles
ReportInput(n, d, h, c, t) ==
    [i \in 1..n |-> Task(TaskIds[i], IF i = 1 THEN t ELSE <<"u", "i">>, h[i], d[i], c[i])]

\* constraints of the inputs that vary the execution plan: none, without
\* and with a teamSize, which the input schema does not declare
PlanConstraints ==
    {<<>>,
     <<[technicalConstraints |-> <<>>, requiredCapabilities |-> <<>>]>>,
     <<[technicalConstraints |-> <<>>, requiredCapabilities |-> <<>>, teamSize |-> 2]>>,
     <<[technicalConstraints |-> <<>>, requiredCapabilities |-> <<>>, teamSize |-> 3]>>}

Pending ==
    /\ op = "none"
    /\ outcome = "pending"
    /\ cycles = <<>>
    /\ dfsState = <<>>
    /\ criticalPath = <<>>
    /\ optimizedTasks = <<>>
    /\ phaseState = <<>>
    /\ rerunTasks = <<>>
    /\ executionPlan = <<>>
    /\ report = <<>>
    /\ steps = <<>>
    /\ calls = <<>>
    /\ taskResults = <<>>
    /\ stepResults = <<>>
    /\ executionResults = <<>>
    /\ allResults = <<>>
    /\ publishCalls = <<>>
    /\ posts = <<>>
    /\ publishResults = <<>>
    /\ publishSummary = <<>>

\* the inputs of the validate-tasks tool
Init ==
    /\ \E n \in 0..(Len(TaskIds) - 2) :
         \E d \in DepAssignments(n, DepIds(n), MaxEdges - 2) :
           \E h \in [1..n -> {0, MaxHours}] :
             \E c \in [1..n -> {<<>>, <<"done">>}] :
               \E t \in Titles :
                 tasks = ReportInput(n, d, h, c, t)
    /\ constraints \in ConstraintInputs
    /\ Pending
    /\ executionConfig = <<>>

\* the inputs of the graph functions: up to three tasks and a dangling id
InitGraph ==
    /\ \E n \in 0..(Len(TaskIds) - 1) :
         \E d \in DepAssignments(n, DepIds(n), MaxEdges) :
           tasks = GraphInput(n, d)
    /\ constraints = <<>>
    /\ Pending
    /\ executionConfig = <<>>

\* the inputs of the cycle detector: those, and four tasks that each list
\* distinct other tasks (diamonds, longer cycles)
InitCycles ==
    \/ InitGraph
    \/ /\ \E d \in DistinctDepAssignments(Len(TaskIds),
                                           {TaskIds[i] : i \in 1..Len(TaskIds)},
                                           MaxEdges) :
             tasks = GraphInput(Len(TaskIds), d)
       /\ constraints = <<>>
       /\ Pending
       /\ executionConfig = <<>>

\* the inputs of the critical-path calculator
InitHours ==
    /\ \E n \in 0..(Len(TaskIds) - 1) :
         \E d \in DepAssignments(n, {TaskIds[i] : i \in 1..n}, MaxEdges - 1) :
           \E h \in [1..n -> 0..MaxHours] :
             tasks = HoursInput(n, d, h)
    /\ constraints = <<>>
    /\ Pending
    /\ executionConfig = <<>>

\* the scenario of section 8 of the spec: A (2h), B (3h, depends on A) and
\* C (1h, depends on A), with the titles, acceptance criteria and
\* constraints that vary the warnings of the report
ScenarioHours == <<2, 3, 1>>
ScenarioDeps == <<<<>>, <<"A">>, <<"A">>>>

InitScenario ==
    /\ \E c \in [1..Len(ScenarioHours) -> {<<>>, <<"done">>}] :
         \E t \in Titles :
           tasks = ReportInput(Len(ScenarioHours), ScenarioDeps, ScenarioHours, c, t)
    /\ constraints \in ConstraintInputs
    /\ Pending
    /\ executionConfig = <<>>

\* the inputs of the execution plan: up to three tasks that each list
\* distinct other tasks, hours of zero, less than and more than a day
InitPlan ==
    /\ \E n \in 0..(Len(TaskIds) - 1) :
         \E d \in DistinctDepAssignments(n, {TaskIds[i] : i \in 1..n}, MaxEdges - 1) :
           \E h \in [1..n -> {k * HoursStep : k \in 0..MaxHours}] :
             tasks = HoursInput(n, d, h)
    /\ constraints \in PlanConstraints
    /\ Pending
    /\ executionConfig = <<>>

(***************************************************************************)
(* The operations: each applies one function of the module to the input.   *)
(***************************************************************************)
CallFindCircularDependencies ==
    /\ op = "none"
    /\ op' = "findCircularDependencies"
    /\ LET st == findCircularDependenciesState(tasks)
       IN  /\ cycles' = st.cycles
           /\ dfsState' = st
           /\ outcome' = IF st.error = "none" THEN "returned" ELSE "thrown"
    /\ UNCHANGED <<tasks, constraints, runVars, criticalPath, optimizedTasks, phaseState,
                   rerunTasks, executionPlan, report, flowVars>>

CallCalculateCriticalPath ==
    /\ op = "none"
    /\ op' = "calculateCriticalPath"
    /\ LET cp == calculateCriticalPath(tasks)
       IN  /\ criticalPath' = cp.path
           /\ outcome' = IF cp.error = "none" THEN "returned" ELSE "thrown"
    /\ UNCHANGED <<tasks, constraints, runVars, cycles, dfsState, optimizedTasks, phaseState,
                   rerunTasks, executionPlan, report, flowVars>>

CallOptimizeTaskExecution ==
    /\ op = "none"
    /\ op' = "optimizeTaskExecution"
    /\ LET r == optimizeTaskExecution(tasks)
       IN  /\ optimizedTasks' = r.tasks
           /\ outcome' = IF r.error = "none" THEN "returned" ELSE "thrown"
    /\ phaseState' = assignedPhases(tasks)
    /\ UNCHANGED <<tasks, constraints, runVars, cycles, dfsState, criticalPath, rerunTasks,
                   executionPlan, report, flowVars>>

\* optimizeTaskExecution applied to the input and then to its own output
CallOptimizeTaskExecutionTwice ==
    /\ op = "none"
    /\ op' = "optimizeTaskExecutionTwice"
    /\ LET first  == optimizeTaskExecution(tasks)
           second == optimizeTaskExecution(first.tasks)
       IN  /\ optimizedTasks' = first.tasks
           /\ rerunTasks' = second.tasks
           /\ outcome' = IF first.error = "none" /\ second.error = "none"
                         THEN "returned" ELSE "thrown"
    /\ phaseState' = assignedPhases(tasks)
    /\ UNCHANGED <<tasks, constraints, runVars, cycles, dfsState, criticalPath,
                   executionPlan, report, flowVars>>

\* generateExecutionPlan applied, as in execute, to the output of
\* optimizeTaskExecution
CallGenerateExecutionPlan ==
    /\ op = "none"
    /\ op' = "generateExecutionPlan"
    /\ LET r == optimizeTaskExecution(tasks)
       IN  /\ optimizedTasks' = r.tasks
           /\ IF r.error = "none"
              THEN /\ executionPlan' = generateExecutionPlan(r.tasks, constraints)
                   /\ outcome' = "returned"
              ELSE /\ outcome' = "thrown"
                   /\ UNCHANGED executionPlan
    /\ phaseState' = assignedPhases(tasks)
    /\ UNCHANGED <<tasks, constraints, runVars, cycles, dfsState, criticalPath, rerunTasks,
                   report, flowVars>>

\* the validate-tasks tool: the whole execute handler.  The tool is called
\* by the framework (not part of the repository) with a context that is
\* either the caller's input as given or the value the input schema parses
\* it to.
Execute ==
    /\ op = "none"
    /\ op' = "execute"
    /\ \E cs \in {constraints, parseConstraints(constraints)} :
       LET r == execute(tasks, cs)
       IN  /\ cycles' = r.circularDeps
           /\ IF r.error = "none"
              THEN /\ outcome' = "returned"
                   /\ criticalPath' = r.validationResults.criticalPath
                   /\ optimizedTasks' = r.optimizedTasks
                   /\ phaseState' = r.phaseState
                   /\ executionPlan' = r.executionPlan
                   /\ report' = r.validationResults
              ELSE /\ outcome' = "thrown"
                   /\ UNCHANGED <<criticalPath, optimizedTasks, phaseState,
                                  executionPlan, report>>
    /\ UNCHANGED <<tasks, constraints, runVars, dfsState, rerunTasks, flowVars>>

Next ==
    \/ CallFindCircularDependencies
    \/ CallCalculateCriticalPath
    \/ CallOptimizeTaskExecution
    \/ CallOptimizeTaskExecutionTwice
    \/ CallGenerateExecutionPlan
    \/ Execute

Spec == Init /\ [][Next]_vars

\* the pure functions, each applied to the inputs that exercise it
SpecCycles == InitCycles /\ [][CallFindCircularDependencies]_vars
SpecPhases ==
    InitGraph /\ [][CallOptimizeTaskExecution \/ CallOptimizeTaskExecutionTwice
                      \/ CallGenerateExecutionPlan]_vars
SpecPath   == InitHours /\ [][CallCalculateCriticalPath]_vars
SpecPlan   == InitPlan /\ [][CallGenerateExecutionPlan \/ Execute]_vars
SpecScenario == InitScenario /\ [][Execute]_vars

(***************************************************************************)
(* The agent workflows of prodWorkflow (workflows/prod.workflow.ts).       *)
(*                                                                         *)
(* Phase 3 of the orchestration step launches one agent workflow for every *)
(* category that has tasks and awaits them with Promise.allSettled.  The   *)
(* step of an agent workflow maps its tasks to async functions, each of    *)
(* which awaits one agent call inside try/catch, and awaits them with      *)
(* Promise.all.  The seven steps differ in the agent they call and in the  *)
(* texts of their messages only.  The agent calls settle in any order.     *)
(***************************************************************************)
\* the categories of taskSchema, in the order phase 3 launches them
Categories ==
    <<"design", "frontend", "backend", "devops", "testing", "documentation",
      "integration">>

\* the categories the tasks of the inputs have
FlowCategories == {"design", "frontend"}

\* executionConfig of the workflow input; an optional field is <<>> when
\* absent and <<value>> when present
ExecutionConfig(enable, maxConcurrent, categories, priority) ==
    [enableTaskExecution |-> enable,
     maxConcurrentTasks  |-> maxConcurrent,
     categories          |-> categories,
     priority            |-> priority]

\* a task record of taskSchema (lines 26-36)
WorkflowTask(id, category, deps) ==
    [id                 |-> id,
     title              |-> <<"t">>,
     description        |-> <<"d">>,
     category           |-> category,
     priority           |-> "medium",
     complexity         |-> "simple",
     dependencies       |-> deps,
     acceptanceCriteria |-> <<"done">>]

\* taskDistribution.<category>Tasks: allTasks.filter(task => task.category
\* === category), as the indices of the tasks in input order
RECURSIVE categoryTasks(_, _, _)
categoryTasks(ts, category, i) ==
    IF i > Len(ts) THEN <<>>
    ELSE (IF ts[i].category = category THEN <<i>> ELSE <<>>)
         \o categoryTasks(ts, category, i + 1)

\* a task result whose async function lets the rejection of the agent call
\* through instead of catching it
taskResult_Rethrow(task, call) ==
    [taskId   |-> task.id,
     title    |-> task.title,
     category |-> task.category,
     status   |-> IF call = "resolved" THEN "completed" ELSE "thrown"]

\* what the async function of tasks.map resolves with once the agent call
\* has settled: the value of the try block or of the catch block
taskResult(task, call) ==
    [taskId   |-> task.id,
     title    |-> task.title,
     category |-> task.category,
     status   |-> IF call = "resolved" THEN "completed" ELSE "failed"]

\* the inputs of the agent workflows: up to three tasks of two categories
\* that each list distinct other tasks
InitFlow ==
    /\ \E n \in 0..(Len(TaskIds) - 1) :
         \E d \in DistinctDepAssignments(n, {TaskIds[i] : i \in 1..n}, MaxEdges - 2) :
           \E c \in [1..n -> FlowCategories] :
             tasks = [i \in 1..n |-> WorkflowTask(TaskIds[i], c[i], d[i])]
    /\ constraints = <<>>
    /\ Pending
    /\ executionConfig = ExecutionConfig(TRUE, 3, <<>>, <<>>)

\* phase 3 up to the await of Promise.allSettled: an agent workflow is
\* launched for every category with tasks
LaunchAgentWorkflows ==
    /\ op = "none"
    /\ executionConfig.enableTaskExecution
    /\ op' = "prodWorkflow.phase3"
    /\ steps' = [c \in {Categories[k] : k \in 1..Len(Categories)} |->
                    IF Len(categoryTasks(tasks, c, 1)) > 0 THEN "launched" ELSE "idle"]
    /\ calls' = [i \in 1..Len(tasks) |-> "idle"]
    /\ taskResults' = [i \in 1..Len(tasks) |-> <<>>]
    /\ stepResults' = [c \in {Categories[k] : k \in 1..Len(Categories)} |-> <<>>]
    /\ UNCHANGED <<tasks, constraints, runVars, outcome, toolVars, executionResults>>

\* the step of the agent workflow of category c runs up to the await of
\* Promise.all: tasks.map has called every async function, and each has
\* started its agent call
StartStep(c) ==
    /\ op = "prodWorkflow.phase3"
    /\ steps[c] = "launched"
    /\ steps' = [steps EXCEPT ![c] = "running"]
    /\ calls' = [i \in 1..Len(tasks) |->
                    IF tasks[i].category = c THEN "running" ELSE calls[i]]
    /\ UNCHANGED <<tasks, constraints, runVars, op, outcome, toolVars, taskResults,
                   stepResults, executionResults>>

\* the agent call of task i resolves: the async function returns the value
\* of its try block
AgentResolves(i) ==
    /\ op = "prodWorkflow.phase3"
    /\ calls[i] = "running"
    /\ calls' = [calls EXCEPT ![i] = "resolved"]
    /\ taskResults' = [taskResults EXCEPT ![i] = <<taskResult(tasks[i], "resolved")>>]
    /\ UNCHANGED <<tasks, constraints, runVars, op, outcome, toolVars, steps, stepResults,
                   executionResults>>

\* the agent call of task i rejects: the async function returns the value
\* of its catch block
AgentRejects(i) ==
    /\ op = "prodWorkflow.phase3"
    /\ calls[i] = "running"
    /\ calls' = [calls EXCEPT ![i] = "rejected"]
    /\ taskResults' = [taskResults EXCEPT ![i] = <<taskResult(tasks[i], "rejected")>>]
    /\ UNCHANGED <<tasks, constraints, runVars, op, outcome, toolVars, steps, stepResults,
                   executionResults>>

\* Promise.all of the step of category c settles: it rejects as soon as one
\* of the async functions has rejected, and it resolves with the results,
\* in the order of the tasks, when every async function has resolved
StepSettles(c) ==
    /\ op = "prodWorkflow.phase3"
    /\ steps[c] = "running"
    /\ LET idx == categoryTasks(tasks, c, 1)
       IN  IF \E k \in 1..Len(idx) :
                 /\ taskResults[idx[k]] # <<>>
                 /\ taskResults[idx[k]][1].status = "thrown"
           THEN /\ steps' = [steps EXCEPT ![c] = "rejected"]
                /\ UNCHANGED stepResults
           ELSE /\ \A k \in 1..Len(idx) : taskResults[idx[k]] # <<>>
                /\ steps' = [steps EXCEPT ![c] = "returned"]
                /\ stepResults' =
                       [stepResults EXCEPT
                           ![c] = [k \in 1..Len(idx) |-> taskResults[idx[k]][1]]]
    /\ UNCHANGED <<tasks, constraints, runVars, op, outcome, toolVars, calls, taskResults,
                   executionResults>>

\* Promise.allSettled over the launched workflows with the mistake of
\* Promise.race: it settles with the first workflow that settles
allSettled_FirstSettled(st) ==
    \/ \E c \in DOMAIN st : st[c] \in {"returned", "rejected"}
    \/ \A c \in DOMAIN st : st[c] = "idle"

\* Promise.allSettled(agentExecutionPromises) settles once every launched
\* workflow has settled, fulfilled or rejected; a category without tasks
\* has no promise in the array
allSettled(st) ==
    \A c \in DOMAIN st : st[c] \in {"idle", "returned", "rejected"}

\* the continuation of phase 3: the results of the fulfilled workflows are
\* organised by category, those of a rejected one stay [], and phase 4
\* starts the artifact-publishing workflow
CollectResults ==
    /\ op = "prodWorkflow.phase3"
    /\ allSettled(steps)
    /\ op' = "prodWorkflow.phase4"
    /\ executionResults' =
           <<[c \in DOMAIN steps |->
                 IF steps[c] = "returned" THEN stepResults[c] ELSE <<>>]>>
    /\ UNCHANGED <<tasks, constraints, runVars, outcome, toolVars, steps, calls, taskResults,
                   stepResults>>

NextFlow ==
    \/ LaunchAgentWorkflows
    \/ \E c \in FlowCategories : StartStep(c)
    \/ \E i \in 1..Len(tasks) : AgentResolves(i)
    \/ \E i \in 1..Len(tasks) : AgentRejects(i)
    \/ \E c \in FlowCategories : StepSettles(c)
    \/ CollectResults

SpecFlow == InitFlow /\ [][NextFlow]_vars

(***************************************************************************)
(* The orchestration step of prodWorkflow with its configuration and with  *)
(* agent workflows that fail as a whole.  The promise of an agent workflow *)
(* rejects when the workflow engine fails outside the try/catch of the     *)
(* step; phase 3 handles that case in the rejected branch of its forEach.  *)
(***************************************************************************)
\* up to three tasks of two categories, task execution enabled or disabled
InitOrchestration ==
    /\ \E n \in 0..(Len(TaskIds) - 1) :
         \E c \in [1..n -> FlowCategories] :
           tasks = [i \in 1..n |-> WorkflowTask(TaskIds[i], c[i], <<>>)]
    /\ constraints = <<>>
    /\ Pending
    /\ \E enable \in BOOLEAN :
         executionConfig = ExecutionConfig(enable, 3, <<>>, <<>>)

\* the early return of the orchestration step when task execution is
\* disabled: empty results and a summary of zeros, no workflow launched
SkipAgentExecution ==
    /\ op = "none"
    /\ ~executionConfig.enableTaskExecution
    /\ op' = "prodWorkflow.skipped"
    /\ outcome' = "returned"
    /\ executionResults' =
           <<[c \in {Categories[k] : k \in 1..Len(Categories)} |-> <<>>]>>
    /\ publishSummary' =
           [totalTasks |-> 0, successful |-> 0, failed |-> 0, published |-> 0]
    /\ UNCHANGED <<tasks, constraints, executionConfig, toolVars, steps, calls,
                   taskResults, stepResults, allResults, publishCalls, posts,
                   publishResults>>

\* the promise of the agent workflow of category c rejects
WorkflowRejects(c) ==
    /\ op = "prodWorkflow.phase3"
    /\ steps[c] \in {"launched", "running"}
    /\ steps' = [steps EXCEPT ![c] = "rejected"]
    /\ UNCHANGED <<tasks, constraints, runVars, op, outcome, toolVars, calls,
                   taskResults, stepResults, executionResults>>

NextOrchestration ==
    \/ SkipAgentExecution
    \/ LaunchAgentWorkflows
    \/ \E c \in FlowCategories : StartStep(c)
    \/ \E i \in 1..Len(tasks) : AgentResolves(i)
    \/ \E i \in 1..Len(tasks) : AgentRejects(i)
    \/ \E c \in FlowCategories : StepSettles(c)
    \/ \E c \in FlowCategories : WorkflowRejects(c)
    \/ CollectResults

SpecOrchestration == InitOrchestration /\ [][NextOrchestration]_vars

(***************************************************************************)
(* The execution coordinator of the task executor                          *)
(* (agents/task-executor.agent.ts, coordinateTaskExecutionStep).  It       *)
(* filters the tasks by the configured categories and minimum priority,    *)
(* groups them by category, calls executeCategoryTasks for the first       *)
(* maxConcurrentTasks groups and awaits them with Promise.allSettled.      *)
(* executeCategoryTasks awaits the agent call of one task after another    *)
(* inside try/catch.                                                       *)
(***************************************************************************)
\* largest maxConcurrentTasks of a configuration
MaxConcurrent == 2

\* const priorityOrder = { critical: 4, high: 3, medium: 2, low: 1 }
priorityOrder(p) ==
    CASE p = "critical" -> 4
      [] p = "high"     -> 3
      [] p = "medium"   -> 2
      [] p = "low"      -> 1

\* the two filters of the coordinator, as the indexes of the tasks kept, in
\* input order; an empty categories array is truthy and keeps no task
filteredTasks(ts, cfg) ==
    LET byCategory ==
            IF cfg.categories # <<>>
            THEN {i \in 1..Len(ts) : InList(ts[i].category, cfg.categories[1])}
            ELSE 1..Len(ts)
        byPriority ==
            IF cfg.priority # <<>>
            THEN {i \in byCategory :
                     priorityOrder(ts[i].priority) >= priorityOrder(cfg.priority[1])}
            ELSE byCategory
    IN  filterSeq([i \in 1..Len(ts) |-> i], byPriority, 1)

\* Object.entries(tasksByCategory): one entry per category in the order of
\* its first task, each with the indexes of its tasks in input order
tasksByCategory(ts, idx) ==
    LET keys == distinctInOrder([k \in 1..Len(idx) |-> ts[idx[k]].category], 1, <<>>)
    IN  [e \in 1..Len(keys) |->
            [category |-> keys[e],
             tasks    |-> SelectSeq(idx, LAMBDA i : ts[i].category = keys[e])]]

\* Array.prototype.slice(0, end) for end >= 0
sliceTo(arr, end) == SubSeq(arr, 1, IF end < Len(arr) THEN end ELSE Len(arr))

\* the entries executeCategoryTasks is called for
executionEntries(ts, cfg) ==
    sliceTo(tasksByCategory(ts, filteredTasks(ts, cfg)), cfg.maxConcurrentTasks)

\* the result executeCategoryTasks pushes for a task once its agent call
\* has settled: from the try block or from the catch block
categoryTaskResult(task, category, call) ==
    [taskId   |-> task.id,
     title    |-> task.title,
     category |-> category,
     status   |-> IF call = "resolved" THEN "completed" ELSE "failed"]

RECURSIVE flatten(_, _)
\* executionResults.push(...result.value) over the fulfilled entries
flatten(results, e) ==
    IF e > Len(results) THEN <<>> ELSE results[e] \o flatten(results, e + 1)

\* the priorities the tasks of the inputs have, and the configurations
CoordinatorPriorities == {"low", "high"}
CoordinatorConfigs ==
    {ExecutionConfig(enable, m, cats, prio) :
        enable \in BOOLEAN, m \in 1..MaxConcurrent,
        cats \in {<<>>, <<<<"design">>>>}, prio \in {<<>>, <<"medium">>}}

\* up to three tasks of two categories and two priorities
InitCoordinator ==
    /\ \E n \in 0..(Len(TaskIds) - 1) :
         \E c \in [1..n -> FlowCategories] :
           \E pr \in [1..n -> CoordinatorPriorities] :
             tasks = [i \in 1..n |->
                         [WorkflowTask(TaskIds[i], c[i], <<>>) EXCEPT !.priority = pr[i]]]
    /\ constraints = <<>>
    /\ Pending
    /\ executionConfig \in CoordinatorConfigs

\* the step up to the await of Promise.allSettled: the early return when
\* execution is disabled or there is no task; otherwise every called
\* executeCategoryTasks has started the agent call of its first task
StartCoordinator ==
    /\ op = "none"
    /\ op' = "coordinateTaskExecution"
    /\ IF ~executionConfig.enableTaskExecution \/ Len(tasks) = 0
       THEN /\ outcome' = "returned"
            /\ executionResults' = <<>>
            /\ UNCHANGED <<steps, calls, taskResults, stepResults>>
       ELSE LET entries == executionEntries(tasks, executionConfig)
            IN  /\ steps' = [e \in 1..Len(entries) |-> "running"]
                /\ calls' = [i \in 1..Len(tasks) |->
                                IF \E e \in 1..Len(entries) : entries[e].tasks[1] = i
                                THEN "running" ELSE "idle"]
                /\ taskResults' = [i \in 1..Len(tasks) |-> <<>>]
                /\ stepResults' = [e \in 1..Len(entries) |-> <<>>]
                /\ UNCHANGED <<outcome, executionResults>>
    /\ UNCHANGED <<tasks, constraints, runVars, toolVars>>

\* the agent call of task i settles: executeCategoryTasks pushes its result
\* and starts the call of the next task of the category, or returns its
\* results after the last one
CategoryCallSettles(i, call) ==
    /\ op = "coordinateTaskExecution"
    /\ outcome = "pending"
    /\ calls[i] = "running"
    /\ LET entries == executionEntries(tasks, executionConfig)
           e == CHOOSE x \in 1..Len(entries) : InList(i, entries[x].tasks)
           k == indexOf(entries[e].tasks, i) + 1
           result == categoryTaskResult(tasks[i], entries[e].category, call)
           results == Append(stepResults[e], result)
       IN  /\ taskResults' = [taskResults EXCEPT ![i] = <<result>>]
           /\ stepResults' = [stepResults EXCEPT ![e] = results]
           /\ IF k < Len(entries[e].tasks)
              THEN /\ calls' = [calls EXCEPT ![i] = call,
                                             ![entries[e].tasks[k + 1]] = "running"]
                   /\ UNCHANGED steps
              ELSE /\ calls' = [calls EXCEPT ![i] = call]
                   /\ steps' = [steps EXCEPT ![e] = "returned"]
    /\ UNCHANGED <<tasks, constraints, runVars, op, outcome, toolVars,
                   executionResults>>

\* Promise.allSettled settles and the step returns the flattened results
CoordinatorReturns ==
    /\ op = "coordinateTaskExecution"
    /\ outcome = "pending"
    /\ \A e \in DOMAIN steps : steps[e] = "returned"
    /\ outcome' = "returned"
    /\ executionResults' = flatten(stepResults, 1)
    /\ UNCHANGED <<tasks, constraints, runVars, op, toolVars, steps, calls,
                   taskResults, stepResults>>

NextCoordinator ==
    \/ StartCoordinator
    \/ \E i \in 1..Len(tasks) : CategoryCallSettles(i, "resolved")
    \/ \E i \in 1..Len(tasks) : CategoryCallSettles(i, "rejected")
    \/ CoordinatorReturns

SpecCoordinator == InitCoordinator /\ [][NextCoordinator]_vars

(***************************************************************************)
(* The artifact-publishing step (workflows/prod.workflow.ts,               *)
(* publish-all-artifacts; publishArtifactsStep of the task executor has    *)
(* the same body over inputData.tasks and executionResults).  It maps      *)
(* every execution result to an async function and awaits them with        *)
(* Promise.all.  A function returns at once when there is nothing to post  *)
(* and otherwise awaits githubArtifactPosterTool.execute inside try/catch. *)
(***************************************************************************)
\* largest number of execution results of an input
MaxResults == 2

\* a task of allTasks; issueNumber is optional: <<>> when absent
PublishTask(id, issueNumber) ==
    [issueNumber |-> issueNumber] @@ WorkflowTask(id, "design", <<>>)

\* an execution result (taskExecutionResultSchema); artifact is optional
ExecutionResult(taskId, status, artifact) ==
    [taskId   |-> taskId,
     title    |-> <<"t">>,
     category |-> "design",
     status   |-> status,
     artifact |-> artifact]

\* allTasks.find(t => t.id === result.taskId)?.issueNumber
issueNumberOf(ts, taskId) ==
    IF find(ts, taskId) = 0 THEN <<>> ELSE ts[find(ts, taskId)].issueNumber

\* the async function reaches the poster with the status check left out
reachesPoster_AnyStatus(ts, result) ==
    /\ result.artifact # <<>>
    /\ issueNumberOf(ts, result.taskId) # <<>>
    /\ issueNumberOf(ts, result.taskId)[1] # 0

\* the async function of a result reaches the call of the poster: neither
\* of the two early returns is taken (!issueNumber holds for undefined
\* and for 0)
reachesPoster(ts, result) ==
    /\ ~(result.status # "completed" \/ result.artifact = <<>>)
    /\ issueNumberOf(ts, result.taskId) # <<>>
    /\ issueNumberOf(ts, result.taskId)[1] # 0

\* the publish result of an early return
earlyPublishResult(ts, result) ==
    [taskId   |-> result.taskId,
     category |-> result.category,
     success  |-> FALSE,
     message  |-> IF result.status # "completed" \/ result.artifact = <<>>
                  THEN "No artifact to publish"
                  ELSE "No GitHub issue number found for task"]

\* the publish result once the poster has settled: publishResult.success
\* when it resolved, the value of the catch block when it threw
posterPublishResult(result, poster) ==
    [taskId   |-> result.taskId,
     category |-> result.category,
     success  |-> (poster = "posted"),
     message  |-> poster]

\* the summary of the step
publishSummaryOf(results, published) ==
    [totalTasks |-> Len(results),
     successful |-> Cardinality({r \in 1..Len(results) : results[r].status = "completed"}),
     failed     |-> Cardinality({r \in 1..Len(results) : results[r].status = "failed"}),
     published  |-> Cardinality({r \in 1..Len(published) : published[r][1].success})]

\* the execution results of the inputs: every status of the schema, with
\* and without an artifact, for a task of the input or for no task
ResultInputs ==
    {ExecutionResult(id, k[1], k[2]) :
        id \in {TaskIds[1], GhostId},
        k \in {<<"completed", <<"artifact">>>>, <<"completed", <<>>>>,
                <<"failed", <<>>>>, <<"failed", <<"artifact">>>>,
                <<"skipped", <<>>>>}}

\* the issue numbers of the task of the inputs: none, 0 and a positive one
IssueNumbers == {<<>>, <<0>>, <<7>>}

\* one task and up to MaxResults execution results
InitPublish ==
    /\ \E issueNumber \in IssueNumbers :
         tasks = <<PublishTask(TaskIds[1], issueNumber)>>
    /\ constraints = <<>>
    /\ op = "none"
    /\ outcome = "pending"
    /\ cycles = <<>> /\ dfsState = <<>> /\ criticalPath = <<>>
    /\ optimizedTasks = <<>> /\ phaseState = <<>> /\ rerunTasks = <<>>
    /\ executionPlan = <<>> /\ report = <<>>
    /\ steps = <<>> /\ calls = <<>> /\ taskResults = <<>>
    /\ stepResults = <<>> /\ executionResults = <<>>
    /\ executionConfig = <<>>
    /\ \E n \in 0..MaxResults : \E rs \in [1..n -> ResultInputs] : allResults = rs
    /\ publishCalls = <<>>
    /\ posts = <<>>
    /\ publishResults = <<>>
    /\ publishSummary = <<>>

\* the step up to the await of Promise.all: allResults.map has called every
\* async function; each has returned early or has called the poster
StartPublishing ==
    /\ op = "none"
    /\ op' = "artifact-publishing"
    /\ publishCalls' = [r \in 1..Len(allResults) |->
                           IF reachesPoster(tasks, allResults[r])
                           THEN "posting" ELSE "returned"]
    /\ posts' = [r \in 1..Len(allResults) |->
                    IF reachesPoster(tasks, allResults[r]) THEN 1 ELSE 0]
    /\ publishResults' = [r \in 1..Len(allResults) |->
                             IF reachesPoster(tasks, allResults[r])
                             THEN <<>>
                             ELSE <<earlyPublishResult(tasks, allResults[r])>>]
    /\ UNCHANGED <<tasks, constraints, executionConfig, outcome, toolVars, flowVars,
                   allResults, publishSummary>>

\* the poster call of result r settles: it resolves with success true
\* ("posted") or false ("failed"), or it throws ("thrown")
PosterSettles(r, poster) ==
    /\ op = "artifact-publishing"
    /\ publishCalls[r] = "posting"
    /\ publishCalls' = [publishCalls EXCEPT ![r] = poster]
    /\ publishResults' =
           [publishResults EXCEPT ![r] = <<posterPublishResult(allResults[r], poster)>>]
    /\ UNCHANGED <<tasks, constraints, executionConfig, op, outcome, toolVars,
                   flowVars, allResults, posts, publishSummary>>

\* Promise.all resolves when every async function has returned; the step
\* computes the summary and returns
PublishingReturns ==
    /\ op = "artifact-publishing"
    /\ outcome = "pending"
    /\ \A r \in 1..Len(allResults) : publishResults[r] # <<>>
    /\ outcome' = "returned"
    /\ publishSummary' = publishSummaryOf(allResults, publishResults)
    /\ UNCHANGED <<tasks, constraints, executionConfig, op, toolVars, flowVars,
                   allResults, publishCalls, posts, publishResults>>

NextPublish ==
    \/ StartPublishing
    \/ \E r \in 1..Len(allResults) : PosterSettles(r, "posted")
    \/ \E r \in 1..Len(allResults) : PosterSettles(r, "failed")
    \/ \E r \in 1..Len(allResults) : PosterSettles(r, "thrown")
    \/ PublishingReturns

SpecPublish == InitPublish /\ [][NextPublish]_vars

(***************************************************************************)
(* Vocabulary of the properties: the dependency graph of an input, stated  *)
(* on the task list alone.                                                 *)
(***************************************************************************)
IdsOf(ts) == {ts[i].id : i \in 1..Len(ts)}

\* task u lists v in its dependencies
DependsOn(ts, u, v) ==
    \E i \in 1..Len(ts) :
        ts[i].id = u /\ \E k \in 1..Len(ts[i].dependencies) : ts[i].dependencies[k] = v

\* a dependency edge between two tasks of the set
Edge(ts, u, v) == v \in IdsOf(ts) /\ DependsOn(ts, u, v)

RECURSIVE Closure(_, _, _)
\* the ids reached from the set S in at most k further edges
Closure(ts, S, k) ==
    IF k = 0 THEN S
    ELSE Closure(ts, S \cup {v \in IdsOf(ts) : \E u \in S : Edge(ts, u, v)}, k - 1)

\* the tasks reached from u along one or more edges
ReachableFrom(ts, u) == Closure(ts, {v \in IdsOf(ts) : Edge(ts, u, v)}, Len(ts))

HasCycle(ts) == \E u \in IdsOf(ts) : u \in ReachableFrom(ts, u)

\* some dependency entry names no task of the set
HasDangling(ts) ==
    \E i \in 1..Len(ts) :
        \E k \in 1..Len(ts[i].dependencies) : ts[i].dependencies[k] \notin IdsOf(ts)

\* c starts and ends at the same id and follows declared dependencies
IsDependencyCycle(ts, c) ==
    /\ Len(c) >= 2
    /\ c[1] = c[Len(c)]
    /\ \A i \in 1..(Len(c) - 1) : DependsOn(ts, c[i], c[i + 1])

InSeq(x, sq) == \E i \in 1..Len(sq) : sq[i] = x

(***************************************************************************)
(* C1: for every accepted task list the validate-tasks execute operation   *)
(* terminates and returns a report: it never throws and never recurses     *)
(* without bound.  Stated of the code: every execute ends "returned".      *)
(* The code violates it: on a dependency cycle of tasks with positive      *)
(* hours buildPath recurses until the call stack is exhausted.             *)
(***************************************************************************)
C1_ExecuteAlwaysReturns == op = "execute" => outcome = "returned"

(***************************************************************************)
(* C2: in the report validate-tasks returns, isValid is false exactly when *)
(* some dependency id is absent from the task set or                       *)
(* findCircularDependencies returned a cycle; warnings never make it false.*)
(***************************************************************************)
C2_IsValidIffNoStructuralError ==
    (op = "execute" /\ outcome = "returned") =>
        (report.isValid = FALSE <=> (HasDangling(tasks) \/ Len(cycles) > 0))

IsWarning(issue, template) == issue.type = "warning" /\ issue.message.template = template

\* a report with the three kinds of warning that is valid
C2_Witness ==
    /\ op = "execute" /\ outcome = "returned"
    /\ report.isValid = TRUE
    /\ \E k \in 1..Len(report.issues) :
            IsWarning(report.issues[k], "has no acceptance criteria")
    /\ \E k \in 1..Len(report.issues) :
            IsWarning(report.issues[k], "may conflict with technical constraints")
    /\ \E k \in 1..Len(report.issues) :
            IsWarning(report.issues[k], "Missing tasks for required capabilities")

(***************************************************************************)
(* C3: cycle detection soundness.  If the dependency edges contain a       *)
(* directed cycle, findCircularDependencies returns at least one sequence  *)
(* whose first and last elements are equal and whose consecutive elements  *)
(* are declared dependencies; two tasks that depend on each other are both *)
(* in one returned cycle.                                                  *)
(***************************************************************************)
C3_CycleDetectionSound ==
    op = "findCircularDependencies" =>
        /\ HasCycle(tasks) =>
              \E k \in 1..Len(cycles) : IsDependencyCycle(tasks, cycles[k])
        /\ \A x, y \in IdsOf(tasks) :
              (x # y /\ Edge(tasks, x, y) /\ Edge(tasks, y, x)) =>
                  \E k \in 1..Len(cycles) :
                      /\ IsDependencyCycle(tasks, cycles[k])
                      /\ InSeq(x, cycles[k]) /\ InSeq(y, cycles[k])

\* two tasks depending on each other, reached through a third task
C3_Witness ==
    /\ op = "findCircularDependencies"
    /\ Len(tasks) = 3
    /\ Edge(tasks, "B", "C") /\ Edge(tasks, "C", "B") /\ Edge(tasks, "A", "B")
    /\ \E k \in 1..Len(cycles) : cycles[k] = <<"B", "C", "B">>

(***************************************************************************)
(* C4: cycle detection completeness on acyclic input.  If the dependency   *)
(* edges form a DAG (shared dependencies and diamonds included),           *)
(* findCircularDependencies returns an empty list.                         *)
(***************************************************************************)
C4_NoCycleOnDag ==
    (op = "findCircularDependencies" /\ ~HasCycle(tasks)) => cycles = <<>>

\* a diamond: D depends on B and C, both depend on A
C4_Witness ==
    /\ op = "findCircularDependencies"
    /\ Len(tasks) = 4
    /\ ~HasCycle(tasks)
    /\ Edge(tasks, "D", "B") /\ Edge(tasks, "D", "C")
    /\ Edge(tasks, "B", "A") /\ Edge(tasks, "C", "A")
    /\ cycles = <<>>

(***************************************************************************)
(* C5: findCircularDependencies returns the set of dependency cycles: for  *)
(* every simple directed cycle in the dependency graph a returned sequence *)
(* traces that cycle (same tasks in dependency order, up to rotation),     *)
(* also when two cycles share a task already completed from an earlier     *)
(* branch.  The code does not do this (C5_EverySimpleCycleTraced fails);   *)
(* what holds is that every simple cycle shares the dependency edge that   *)
(* closes a returned sequence (C5_EverySimpleCycleClosed).                 *)
(***************************************************************************)
\* the simple directed cycles: sequences of distinct tasks, each depending
\* on the next and the last on the first
SimpleCycles(ts) ==
    {sc \in UNION {[1..k -> IdsOf(ts)] : k \in 1..Len(ts)} :
        /\ \A i, j \in 1..Len(sc) : i # j => sc[i] # sc[j]
        /\ \A i \in 1..Len(sc) : Edge(ts, sc[i], sc[(i % Len(sc)) + 1])}

\* the returned sequence c traces the simple cycle sc, up to rotation
Traces(c, sc) ==
    /\ Len(c) = Len(sc) + 1
    /\ c[Len(c)] = c[1]
    /\ \E r \in 0..(Len(sc) - 1) :
           \A i \in 1..Len(sc) : c[i] = sc[((i - 1 + r) % Len(sc)) + 1]

\* the last edge of the returned sequence c is an edge of the cycle sc
ClosesOn(c, sc) ==
    /\ Len(c) >= 2
    /\ \E i \in 1..Len(sc) :
           sc[i] = c[Len(c) - 1] /\ sc[(i % Len(sc)) + 1] = c[Len(c)]

C5_EverySimpleCycleTraced ==
    op = "findCircularDependencies" =>
        \A sc \in SimpleCycles(tasks) : \E k \in 1..Len(cycles) : Traces(cycles[k], sc)

C5_EverySimpleCycleClosed ==
    op = "findCircularDependencies" =>
        \A sc \in SimpleCycles(tasks) :
            \E k \in 1..Len(cycles) :
                IsDependencyCycle(tasks, cycles[k]) /\ ClosesOn(cycles[k], sc)

\* A -> B -> C -> A is returned; A -> C -> A, which runs through the
\* completed task C, is not
C5_Witness ==
    /\ op = "findCircularDependencies"
    /\ Len(tasks) = 3
    /\ tasks[1].dependencies = <<"B", "C">>
    /\ tasks[2].dependencies = <<"C">>
    /\ tasks[3].dependencies = <<"A">>
    /\ cycles = << <<"A", "B", "C", "A">> >>
    /\ <<"A", "C">> \in SimpleCycles(tasks)

(***************************************************************************)
(* C6: dangling references.  For every task Z and every occurrence in      *)
(* Z.dependencies of an id that no task has, the report contains one       *)
(* error issue with taskId Z whose message names the missing id, and       *)
(* isValid is false; an id that resolves to a task produces no such error. *)
(***************************************************************************)
\* the indexes of the dangling-reference errors for task z and id g
DanglingErrors(issues, z, g) ==
    {k \in 1..Len(issues) :
        /\ issues[k].type = "error"
        /\ "taskId" \in DOMAIN issues[k]
        /\ issues[k].taskId = z
        /\ issues[k].message.template = "depends on non-existent task"
        /\ issues[k].message.depId = g}

\* the number of entries equal to g in the dependency list of task z
Occurrences(ts, z, g) ==
    Cardinality({k \in 1..Len(ts[find(ts, z)].dependencies) :
                    ts[find(ts, z)].dependencies[k] = g})

C6_DanglingReported ==
    (op = "execute" /\ outcome = "returned") =>
        \A z \in IdsOf(tasks) :
            \A g \in {GhostId} \cup {TaskIds[i] : i \in 1..Len(TaskIds)} :
                IF g \in IdsOf(tasks)
                THEN DanglingErrors(report.issues, z, g) = {}
                ELSE /\ Cardinality(DanglingErrors(report.issues, z, g))
                            = Occurrences(tasks, z, g)
                     /\ Occurrences(tasks, z, g) > 0 => report.isValid = FALSE

\* a task that lists the missing id twice, and a dependency that resolves
C6_Witness ==
    /\ op = "execute" /\ outcome = "returned"
    /\ Len(tasks) = 2
    /\ tasks[1].dependencies = <<GhostId, GhostId>>
    /\ Cardinality(DanglingErrors(report.issues, "A", GhostId)) = 2
    /\ report.isValid = FALSE

(***************************************************************************)
(* C7: critical path optimality.  For an acyclic task set with resolved    *)
(* dependencies, no dependency chain has a sum of estimatedHours strictly  *)
(* greater than that of the path calculateCriticalPath returns.  The code  *)
(* violates it: a dependency reached a second time within one top-level    *)
(* computation contributes 0.                                              *)
(***************************************************************************)
\* the dependency chains in forward order: each element is a task that
\* declares the previous one as a dependency
Chains(ts) ==
    {ch \in UNION {[1..k -> IdsOf(ts)] : k \in 1..Len(ts)} :
        \A i \in 1..(Len(ch) - 1) : Edge(ts, ch[i + 1], ch[i])}

RECURSIVE ChainHours(_, _, _)
\* the sum of estimatedHours along the ids of ch, from index i
ChainHours(ts, ch, i) ==
    IF i > Len(ch) THEN 0
    ELSE ts[find(ts, ch[i])].estimatedHours + ChainHours(ts, ch, i + 1)

C7_CriticalPathIsLongest ==
    (op = "calculateCriticalPath" /\ outcome = "returned"
        /\ ~HasCycle(tasks) /\ ~HasDangling(tasks)) =>
        \A ch \in Chains(tasks) :
            ChainHours(tasks, ch, 1) <= ChainHours(tasks, criticalPath, 1)

(***************************************************************************)
(* C8: critical path shape.  For a non-empty acyclic task set with         *)
(* non-negative hours, calculateCriticalPath returns a non-empty sequence  *)
(* in forward order whose first element has no dependencies, in which      *)
(* every later element declares the previous one as a dependency, and      *)
(* whose last element is the task of maximum total duration, also when     *)
(* some hours are 0.  The code violates it when hours are 0.               *)
(***************************************************************************)
\* duration(task): the largest sum of hours of a chain that ends at u
TotalDuration(ts, u) ==
    LET sums == {ChainHours(ts, ch, 1) :
                    ch \in {c \in Chains(ts) : c[Len(c)] = u}}
    IN  CHOOSE m \in sums : \A x \in sums : x <= m

C8_CriticalPathShape ==
    (op = "calculateCriticalPath" /\ outcome = "returned"
        /\ Len(tasks) > 0 /\ ~HasCycle(tasks)) =>
        /\ Len(criticalPath) > 0
        /\ Len(tasks[find(tasks, criticalPath[1])].dependencies) = 0
        /\ \A i \in 1..(Len(criticalPath) - 1) :
               DependsOn(tasks, criticalPath[i + 1], criticalPath[i])
        /\ \A u \in IdsOf(tasks) :
               TotalDuration(tasks, u)
                   <= TotalDuration(tasks, criticalPath[Len(criticalPath)])

(***************************************************************************)
(* C9: phase monotonicity.  For a task set with unique ids and acyclic     *)
(* dependencies, in the output of optimizeTaskExecution every task t and   *)
(* every dependency d of t that resolves to a task satisfy                 *)
(* phase(t) > phase(d), and every phase is an integer >= 1, whatever the   *)
(* order of the tasks in the input.                                        *)
(***************************************************************************)
\* optimizedTasks holds the output of optimizeTaskExecution
Optimized ==
    /\ op \in {"optimizeTaskExecution", "optimizeTaskExecutionTwice",
                "generateExecutionPlan", "execute"}
    /\ outcome = "returned"

PhaseOf(ots, id) == ots[find(ots, id)].phase

C9_PhaseMonotonicity ==
    (Optimized /\ ~HasCycle(tasks)) =>
        /\ \A i \in 1..Len(optimizedTasks) :
               optimizedTasks[i].phase \in Nat /\ optimizedTasks[i].phase >= 1
        /\ \A t, d \in IdsOf(tasks) :
               Edge(tasks, t, d) =>
                   PhaseOf(optimizedTasks, t) > PhaseOf(optimizedTasks, d)

\* a chain listed dependents first: A depends on B, B on C; C also has a
\* dangling dependency
C9_Witness ==
    /\ op = "optimizeTaskExecution"
    /\ Len(tasks) = 3
    /\ ~HasCycle(tasks)
    /\ Edge(tasks, "A", "B") /\ Edge(tasks, "B", "C")
    /\ PhaseOf(optimizedTasks, "A") > PhaseOf(optimizedTasks, "B")
    /\ PhaseOf(optimizedTasks, "B") > PhaseOf(optimizedTasks, "C")

(***************************************************************************)
(* C10: phase minimality for roots.  In the output of                      *)
(* optimizeTaskExecution every task whose dependency list is empty has     *)
(* phase 1, for every input task set, cyclic or not.                       *)
(***************************************************************************)
C10_RootsInPhaseOne ==
    Optimized =>
        \A i \in 1..Len(optimizedTasks) :
            Len(tasks[i].dependencies) = 0 => optimizedTasks[i].phase = 1

\* a root that two tasks of a cycle depend on
C10_Witness ==
    /\ op = "optimizeTaskExecution"
    /\ Len(tasks) = 3
    /\ Edge(tasks, "A", "B") /\ Edge(tasks, "B", "A")
    /\ Edge(tasks, "A", "C") /\ Edge(tasks, "B", "C")
    /\ Len(tasks[3].dependencies) = 0
    /\ optimizedTasks[3].phase = 1
    /\ optimizedTasks[1].phase > 1

(***************************************************************************)
(* C11: parallelizability flag correctness.  For every task set with       *)
(* unique ids, in the output of optimizeTaskExecution canStartInParallel   *)
(* of a task is true if and only if at least one other task of the set has *)
(* the same phase.                                                         *)
(***************************************************************************)
C11_ParallelFlagCorrect ==
    Optimized =>
        \A i \in 1..Len(optimizedTasks) :
            optimizedTasks[i].canStartInParallel
                <=> \E j \in 1..Len(optimizedTasks) :
                        j # i /\ optimizedTasks[j].phase = optimizedTasks[i].phase

\* two tasks share a phase and a third is alone in its phase
C11_Witness ==
    /\ op = "optimizeTaskExecution"
    /\ Len(optimizedTasks) = 3
    /\ optimizedTasks[1].phase = optimizedTasks[2].phase
    /\ optimizedTasks[3].phase # optimizedTasks[1].phase
    /\ optimizedTasks[1].canStartInParallel
    /\ optimizedTasks[2].canStartInParallel
    /\ ~optimizedTasks[3].canStartInParallel

(***************************************************************************)
(* C12: a cyclic task set does not make the phase assigner throw or        *)
(* recurse forever.  optimizeTaskExecution returns for every input,        *)
(* self-dependencies, mutual dependencies and longer cycles included, and  *)
(* its output annotates every input task, in input order, with a phase and *)
(* a canStartInParallel flag.                                              *)
(***************************************************************************)
C12_PhaseAssignerTerminates ==
    op \in {"optimizeTaskExecution", "optimizeTaskExecutionTwice",
            "generateExecutionPlan"} =>
        /\ outcome = "returned"
        /\ phaseState.error = "none"
        /\ Len(optimizedTasks) = Len(tasks)
        /\ \A i \in 1..Len(tasks) :
               /\ optimizedTasks[i].id = tasks[i].id
               /\ optimizedTasks[i].phase \in Nat \ {0}
               /\ optimizedTasks[i].canStartInParallel \in BOOLEAN

\* a cycle of three tasks, one of which also depends on itself
C12_Witness ==
    /\ op = "optimizeTaskExecution"
    /\ outcome = "returned"
    /\ Len(optimizedTasks) = 3
    /\ Edge(tasks, "A", "A")
    /\ Edge(tasks, "A", "B") /\ Edge(tasks, "B", "C") /\ Edge(tasks, "C", "A")
    /\ \A i \in 1..3 : optimizedTasks[i].phase >= 1

(***************************************************************************)
(* C13: cyclic fallback value.  When the phase assigner meets a task that  *)
(* is already being computed on the current recursion stack (the offending *)
(* node of a cycle), the phase of that node in the output of               *)
(* optimizeTaskExecution is 1.  As stated it fails: 1 is what the nested   *)
(* call returns, and the node's own frame then assigns it 1 plus the       *)
(* largest value returned for its dependencies.                            *)
(***************************************************************************)
\* the tasks the guard of line 276 has met on the recursion stack: visited
\* holds a task only while its frame is on the stack
OffendingNodes == {f \in phaseState.fallbacks : f.id \in IdsOf(tasks)}

C13_OffendingNodePhaseOne ==
    Optimized =>
        \A f \in OffendingNodes : PhaseOf(optimizedTasks, f.id) = 1

\* C13 amended: the nested call returns 1 for the offending node, and the
\* phase of that node in the output is at least 2
C13_FallbackReturnsOne ==
    Optimized =>
        \A f \in OffendingNodes :
            f.phase = 1 /\ PhaseOf(optimizedTasks, f.id) >= 2

\* A and B depend on each other: A is met again below B
C13_Witness ==
    /\ op = "optimizeTaskExecution"
    /\ Len(tasks) = 2
    /\ Edge(tasks, "A", "B") /\ Edge(tasks, "B", "A")
    /\ OffendingNodes = {[id |-> "A", phase |-> 1]}
    /\ PhaseOf(optimizedTasks, "A") = 3
    /\ PhaseOf(optimizedTasks, "B") = 2

(***************************************************************************)
(* C14: the critical path lower-bounds the planned duration.  For every    *)
(* acyclic task set with resolved dependencies and non-negative hours, the *)
(* sum of estimatedHours along the returned criticalPath is at most the    *)
(* sum of the per-phase estimatedHours of the executionPlan built from the *)
(* same tasks.                                                             *)
(***************************************************************************)
RECURSIVE PlanHours(_, _)
\* the sum of the estimatedHours of the phases of a plan, from index k
PlanHours(plan, k) ==
    IF k > Len(plan.phases) THEN 0
    ELSE plan.phases[k].estimatedHours + PlanHours(plan, k + 1)

C14_CriticalPathBelowPlan ==
    (op = "execute" /\ outcome = "returned"
        /\ ~HasCycle(tasks) /\ ~HasDangling(tasks)) =>
        ChainHours(tasks, criticalPath, 1) <= PlanHours(executionPlan, 1)

\* a path of two tasks that takes all the planned hours, beside a third
\* task that shares a phase with one of them
C14_Witness ==
    /\ op = "execute" /\ outcome = "returned"
    /\ ~HasCycle(tasks)
    /\ Len(tasks) = 3
    /\ Len(criticalPath) = 2
    /\ executionPlan.totalPhases = 2
    /\ ChainHours(tasks, criticalPath, 1) = PlanHours(executionPlan, 1)
    /\ ChainHours(tasks, criticalPath, 1) > HoursStep

(***************************************************************************)
(* C15: execution plan grouping.  generateExecutionPlan puts every         *)
(* phase-annotated task id in the task list of exactly one plan phase, the *)
(* phase equal to the task's phase annotation; each plan phase's           *)
(* estimatedHours is the maximum (not the sum) of estimatedHours over the  *)
(* tasks of that phase; totalPhases is the number of distinct phase        *)
(* values.                                                                 *)
(***************************************************************************)
\* the positions of id in the task lists of the plan: <<phase index, index>>
PlanPositions(plan, id) ==
    {pos \in (1..Len(plan.phases)) \X (1..Len(optimizedTasks)) :
        /\ pos[2] <= Len(plan.phases[pos[1]].tasks)
        /\ plan.phases[pos[1]].tasks[pos[2]] = id}

C15_PlanGrouping ==
    (op \in {"generateExecutionPlan", "execute"} /\ outcome = "returned") =>
        /\ \A i \in 1..Len(optimizedTasks) :
               /\ Cardinality(PlanPositions(executionPlan, optimizedTasks[i].id)) = 1
               /\ \A pos \in PlanPositions(executionPlan, optimizedTasks[i].id) :
                      executionPlan.phases[pos[1]].phase = optimizedTasks[i].phase
        /\ \A k \in 1..Len(executionPlan.phases) :
               LET members == {i \in 1..Len(optimizedTasks) :
                                  optimizedTasks[i].phase = executionPlan.phases[k].phase}
               IN  /\ Len(executionPlan.phases[k].tasks) = Cardinality(members)
                   /\ \E i \in members :
                          optimizedTasks[i].estimatedHours
                              = executionPlan.phases[k].estimatedHours
                   /\ \A i \in members :
                          optimizedTasks[i].estimatedHours
                              <= executionPlan.phases[k].estimatedHours
        /\ executionPlan.totalPhases =
               Cardinality({optimizedTasks[i].phase : i \in 1..Len(optimizedTasks)})

\* two tasks of different positive hours share the second phase
C15_Witness ==
    /\ op = "generateExecutionPlan"
    /\ Len(optimizedTasks) = 3
    /\ executionPlan.totalPhases = 2
    /\ optimizedTasks[2].phase = 2 /\ optimizedTasks[3].phase = 2
    /\ optimizedTasks[2].estimatedHours = HoursStep
    /\ optimizedTasks[3].estimatedHours > HoursStep
    /\ \E k \in 1..2 :
           /\ executionPlan.phases[k].tasks = <<"B", "C">>
           /\ executionPlan.phases[k].estimatedHours = optimizedTasks[3].estimatedHours

(***************************************************************************)
(* C16: estimated duration.  For integer hours the number of days in       *)
(* executionPlan.estimatedDuration is the sum of the per-phase             *)
(* estimatedHours divided by (teamSize * 8), rounded up to the next whole  *)
(* day, where teamSize is the caller-supplied constraint and is 1 when it  *)
(* is unspecified.  The code violates it: the input schema declares no     *)
(* teamSize, so a call through the schema computes with teamSize 1         *)
(* whatever the caller supplies.                                           *)
(***************************************************************************)
\* the teamSize the caller supplies, 1 when unspecified
CallerTeamSize ==
    IF Len(constraints) = 1 /\ "teamSize" \in DOMAIN constraints[1]
    THEN constraints[1].teamSize ELSE 1

C16_EstimatedDays ==
    (op = "execute" /\ outcome = "returned") =>
        LET total == PlanHours(executionPlan, 1)
            days  == executionPlan.estimatedDuration.days
        IN  /\ days \in Nat
            /\ days * (CallerTeamSize * 8) >= total
            /\ (days - 1) * (CallerTeamSize * 8) < total

(***************************************************************************)
(* C17: idempotence of phase assignment.  For any valid task set (no       *)
(* dependency cycle, no dangling dependency), running                      *)
(* optimizeTaskExecution a second time on its own output yields the same   *)
(* phase and canStartInParallel annotation for every task.  (A second run  *)
(* on the same input starts, like every run, from the empty phases and     *)
(* visited of lines 271-272: no state of one call reaches a later call.)   *)
(***************************************************************************)
C17_Idempotent ==
    (op = "optimizeTaskExecutionTwice" /\ outcome = "returned"
        /\ ~HasCycle(tasks) /\ ~HasDangling(tasks)) =>
        /\ Len(rerunTasks) = Len(optimizedTasks)
        /\ \A i \in 1..Len(optimizedTasks) :
               /\ rerunTasks[i].id = optimizedTasks[i].id
               /\ rerunTasks[i].phase = optimizedTasks[i].phase
               /\ rerunTasks[i].canStartInParallel
                      = optimizedTasks[i].canStartInParallel

\* B and C depend on A and share the second phase
C17_Witness ==
    /\ op = "optimizeTaskExecutionTwice"
    /\ ~HasCycle(tasks) /\ ~HasDangling(tasks)
    /\ Len(tasks) = 3
    /\ Edge(tasks, "B", "A") /\ Edge(tasks, "C", "A")
    /\ optimizedTasks[2].phase = 2 /\ optimizedTasks[2].canStartInParallel
    /\ ~optimizedTasks[1].canStartInParallel
    /\ rerunTasks = optimizedTasks

(***************************************************************************)
(* C18: dependency-ordered dispatch.  In the execution paths that dispatch *)
(* tasks to generation agents, a task is not dispatched until every task   *)
(* it depends on, and every task of an earlier phase, has returned         *)
(* (success or failure).  Stated of phase 3 of prodWorkflow: a step that   *)
(* starts the agent call of a task finds the calls of those tasks settled. *)
(* The code violates it: every agent workflow is launched at once and      *)
(* every step starts all the calls of its category at once.                *)
(***************************************************************************)
\* the tasks that must have returned before task i is dispatched
MustPrecede(i) ==
    LET phases == optimizeTaskExecution(tasks).tasks
    IN  {j \in 1..Len(tasks) :
            \/ Edge(tasks, tasks[i].id, tasks[j].id)
            \/ phases[j].phase < phases[i].phase}

C18_DependencyOrderedDispatch ==
    [][\A i \in 1..Len(tasks) :
          (op = "prodWorkflow.phase3" /\ calls[i] = "idle" /\ calls'[i] = "running") =>
              \A j \in MustPrecede(i) : calls[j] \in {"resolved", "rejected"}]_vars

(***************************************************************************)
(* C19: partial-failure isolation.  In each category agent workflow step,  *)
(* under every interleaving and completion order of the concurrent task    *)
(* dispatches, a failure of one task's agent call produces a result with   *)
(* status failed for that task only and never blocks, cancels or removes a *)
(* sibling; the step returns exactly one result per input task, each with  *)
(* status completed or failed.                                             *)
(***************************************************************************)
C19_FailureIsolated ==
    op \in {"prodWorkflow.phase3", "prodWorkflow.phase4"} =>
        /\ \A i \in 1..Len(tasks) :
               \* a result is failed exactly when the task's own call failed
               /\ taskResults[i] # <<>> =>
                      /\ taskResults[i][1].taskId = tasks[i].id
                      /\ taskResults[i][1].status
                             = (IF calls[i] = "rejected" THEN "failed" ELSE "completed")
               \* a call, once started, runs until it settles by itself
               /\ steps[tasks[i].category] # "launched" =>
                      calls[i] \in {"running", "resolved", "rejected"}
               /\ calls[i] \in {"resolved", "rejected"} <=> taskResults[i] # <<>>
        /\ \A c \in DOMAIN steps :
               LET idx == categoryTasks(tasks, c, 1)
                   settled == \A k \in 1..Len(idx) :
                                  calls[idx[k]] \in {"resolved", "rejected"}
               IN  /\ steps[c] # "rejected"
                   \* the step returns when, and only when, all have settled
                   /\ steps[c] = "returned" => settled
                   /\ (steps[c] = "running" /\ settled) => ENABLED StepSettles(c)
                   /\ steps[c] = "returned" =>
                          /\ Len(stepResults[c]) = Len(idx)
                          /\ \A k \in 1..Len(idx) :
                                 /\ stepResults[c][k].taskId = tasks[idx[k]].id
                                 /\ stepResults[c][k].status \in {"completed", "failed"}
                                 /\ stepResults[c][k].status = "failed"
                                        <=> calls[idx[k]] = "rejected"

\* of two design tasks the first failed while the second was running; the
\* step has returned a failed and a completed result
C19_Witness ==
    /\ op = "prodWorkflow.phase3"
    /\ Len(tasks) = 3
    /\ categoryTasks(tasks, "design", 1) = <<1, 2>>
    /\ steps["design"] = "returned"
    /\ Len(stepResults["design"]) = 2
    /\ stepResults["design"][1].status = "failed"
    /\ stepResults["design"][2].status = "completed"
    /\ steps["frontend"] = "running"
    /\ calls[3] = "running"

(***************************************************************************)
(* C20: concrete scenario.  For tasks A (2h, no dependencies), B (3h,      *)
(* depends on A) and C (1h, depends on A), validation yields phase(A) = 1, *)
(* phase(B) = 2, phase(C) = 2, criticalPath = [A, B] (duration 5),         *)
(* canStartInParallel true for B and C and false for A, and isValid true.  *)
(***************************************************************************)
IsScenario(ts) ==
    /\ Len(ts) = 3
    /\ ts[1].id = "A" /\ ts[1].estimatedHours = 2 /\ ts[1].dependencies = <<>>
    /\ ts[2].id = "B" /\ ts[2].estimatedHours = 3 /\ ts[2].dependencies = <<"A">>
    /\ ts[3].id = "C" /\ ts[3].estimatedHours = 1 /\ ts[3].dependencies = <<"A">>

C20_Scenario ==
    (op = "execute" /\ IsScenario(tasks)) =>
        /\ outcome = "returned"
        /\ PhaseOf(optimizedTasks, "A") = 1
        /\ PhaseOf(optimizedTasks, "B") = 2
        /\ PhaseOf(optimizedTasks, "C") = 2
        /\ report.criticalPath = <<"A", "B">>
        /\ ChainHours(tasks, report.criticalPath, 1) = 5
        /\ ~optimizedTasks[1].canStartInParallel
        /\ optimizedTasks[2].canStartInParallel
        /\ optimizedTasks[3].canStartInParallel
        /\ report.isValid

\* the scenario validated, with warnings in the report
C20_Witness ==
    /\ op = "execute" /\ outcome = "returned"
    /\ IsScenario(tasks)
    /\ Len(report.issues) > 0
    /\ report.isValid
    /\ report.criticalPath = <<"A", "B">>

(***************************************************************************)
(* C21: phase formula.  For every acyclic task set with unique ids and     *)
(* resolved dependencies, the phase of each task is 1 + the maximum phase  *)
(* of its dependencies (1 when it has none), that is the smallest level    *)
(* compatible with phase monotonicity: the number of tasks on the longest  *)
(* dependency chain that ends at the task.  Both are functions of the      *)
(* dependency graph, not of the order of the tasks or of the ids in a      *)
(* dependency list.                                                        *)
(***************************************************************************)
\* the number of tasks on the longest dependency chain that ends at u
LongestChainTo(ts, u) ==
    LET lens == {Len(ch) : ch \in {c \in Chains(ts) : c[Len(c)] = u}}
    IN  CHOOSE m \in lens : \A x \in lens : x <= m

C21_PhaseFormula ==
    (Optimized /\ ~HasCycle(tasks) /\ ~HasDangling(tasks)) =>
        \A i \in 1..Len(optimizedTasks) :
            LET depPhases == {PhaseOf(optimizedTasks, d) :
                                 d \in {v \in IdsOf(tasks) : Edge(tasks, tasks[i].id, v)}}
            IN  /\ \E m \in depPhases \cup {0} :
                       /\ \A x \in depPhases : x <= m
                       /\ optimizedTasks[i].phase = 1 + m
                /\ optimizedTasks[i].phase = LongestChainTo(tasks, tasks[i].id)

\* A lists C (phase 1) before B (phase 2), and is listed before both
C21_Witness ==
    /\ op = "optimizeTaskExecution"
    /\ Len(tasks) = 3
    /\ ~HasCycle(tasks) /\ ~HasDangling(tasks)
    /\ tasks[1].dependencies = <<"C", "B">>
    /\ tasks[2].dependencies = <<"C">>
    /\ optimizedTasks[1].phase = 3
    /\ optimizedTasks[2].phase = 2
    /\ optimizedTasks[3].phase = 1

(***************************************************************************)
(* C22: every sequence returned by findCircularDependencies is a genuine   *)
(* cycle over existing tasks: its first and last ids are equal, each       *)
(* consecutive pair is a declared dependency, and no id in it is dangling. *)
(* An id absent from the task set never appears in a reported cycle and    *)
(* never makes the detector report a cycle: the result is that of the same *)
(* task list with the dangling entries removed.                            *)
(***************************************************************************)
\* the task list with the entries that name no task removed from every
\* dependency list
StripDangling(ts) ==
    [i \in 1..Len(ts) |->
        [ts[i] EXCEPT !.dependencies =
            SelectSeq(@, LAMBDA d : d \in IdsOf(ts))]]

C22_CyclesAreGenuine ==
    (op = "findCircularDependencies" /\ outcome = "returned") =>
        /\ \A k \in 1..Len(cycles) :
               /\ IsDependencyCycle(tasks, cycles[k])
               /\ \A j \in 1..Len(cycles[k]) : cycles[k][j] \in IdsOf(tasks)
        /\ cycles = findCircularDependencies(StripDangling(tasks))

\* A and B depend on each other and both on an id that names no task
C22_Witness ==
    /\ op = "findCircularDependencies"
    /\ Len(tasks) = 2
    /\ tasks[1].dependencies = <<GhostId, "B">>
    /\ tasks[2].dependencies = <<GhostId, "A">>
    /\ cycles = <<<<"A", "B", "A">>>>

(***************************************************************************)
(* C23: for a task A whose dependency list contains A,                     *)
(* findCircularDependencies reports the cycle [A, A], and validation       *)
(* (execute) returns a report that holds an error issue for that cycle.    *)
(***************************************************************************)
SelfDependent(ts) ==
    {ts[i].id : i \in {j \in 1..Len(ts) : InSeq(ts[j].id, ts[j].dependencies)}}

C23_SelfDependencyReported ==
    \A a \in SelfDependent(tasks) :
        /\ op = "findCircularDependencies" =>
               outcome = "returned" /\ InSeq(<<a, a>>, cycles)
        /\ op = "execute" =>
               /\ outcome = "returned"
               /\ \E k \in 1..Len(report.issues) :
                      /\ report.issues[k].type = "error"
                      /\ report.issues[k].message =
                             [template |-> "Circular dependency detected",
                              cycle    |-> <<a, a>>]

(***************************************************************************)
(* C24: findCircularDependencies finishes without throwing on every task   *)
(* list (cyclic, self-dependent, with dangling ids, with repeated ids in a *)
(* dependency list); each id is expanded at most once over the whole call  *)
(* and the recursion stack set is empty when it returns.                   *)
(***************************************************************************)
\* how many times x stands in the sequence sq
TimesIn(x, sq) == Cardinality({k \in 1..Len(sq) : sq[k] = x})

C24_DetectionTerminates ==
    op = "findCircularDependencies" =>
        /\ outcome = "returned"
        /\ dfsState.error = "none"
        /\ dfsState.frames = 0
        /\ \A x \in IdsOf(tasks) \cup {GhostId} :
               TimesIn(x, dfsState.expanded) <= 1
        /\ \A i \in 1..Len(tasks) : TimesIn(tasks[i].id, dfsState.expanded) = 1
        /\ dfsState.recursionStack = {}

\* A depends on itself, twice on B and on an id that names no task
C24_Witness ==
    /\ op = "findCircularDependencies"
    /\ outcome = "returned"
    /\ Len(tasks) = 2
    /\ tasks[1].dependencies = <<"A", "B", "B", GhostId>>
    /\ dfsState.expanded = <<"A", "B", GhostId>>
    /\ dfsState.recursionStack = {}

(***************************************************************************)
(* C25: critical-path tie-breaks follow input order.  When several         *)
(* dependencies of a task on the path have the same maximum duration,      *)
(* buildPath steps to the first of them in the dependency list; when       *)
(* several tasks have the same maximum total duration, the terminal task   *)
(* of the path is the first of them in the input list.                     *)
(***************************************************************************)
\* the positions of sq whose id has the greatest total duration
MaxPositions(ts, sq) ==
    {k \in 1..Len(sq) :
        \A j \in 1..Len(sq) :
            TotalDuration(ts, sq[j]) <= TotalDuration(ts, sq[k])}

\* the first id of sq among those of greatest total duration
FirstOfMaximum(ts, sq) ==
    sq[CHOOSE k \in MaxPositions(ts, sq) : \A j \in MaxPositions(ts, sq) : k <= j]

\* several distinct ids of sq share the greatest total duration
TiedMaximum(ts, sq) ==
    Cardinality({sq[k] : k \in MaxPositions(ts, sq)}) >= 2

InputIds(ts) == [i \in 1..Len(ts) |-> ts[i].id]

C25_TieBreaksFollowInputOrder ==
    (op = "calculateCriticalPath" /\ outcome = "returned"
        /\ ~HasCycle(tasks) /\ ~HasDangling(tasks)) =>
        /\ TiedMaximum(tasks, InputIds(tasks)) =>
               /\ Len(criticalPath) > 0
               /\ criticalPath[Len(criticalPath)] = FirstOfMaximum(tasks, InputIds(tasks))
        /\ \A k \in 1..Len(criticalPath) :
               LET deps == tasks[find(tasks, criticalPath[k])].dependencies
               IN  TiedMaximum(tasks, deps) =>
                       /\ k > 1
                       /\ criticalPath[k - 1] = FirstOfMaximum(tasks, deps)

(***************************************************************************)
(* C26: dangling dependencies do not distort phases.  For an acyclic task  *)
(* set with unique ids, a dependency id absent from the task set adds      *)
(* nothing to the phase of the dependent task (a task whose dependencies   *)
(* are all dangling is in phase 1), and the phase numbers that occur in    *)
(* optimizedTasks and in executionPlan are exactly 1..totalPhases.         *)
(***************************************************************************)
PhaseNumbers(ots) == {ots[i].phase : i \in 1..Len(ots)}

C26_DanglingDoesNotDistortPhases ==
    (Optimized /\ ~HasCycle(tasks)) =>
        /\ \A i \in 1..Len(optimizedTasks) :
               optimizedTasks[i].phase = LongestChainTo(tasks, tasks[i].id)
        /\ PhaseNumbers(optimizedTasks) = 1..Cardinality(PhaseNumbers(optimizedTasks))
        /\ op \in {"generateExecutionPlan", "execute"} =>
               {executionPlan.phases[k].phase : k \in 1..Len(executionPlan.phases)}
                   = 1..executionPlan.totalPhases

(***************************************************************************)
(* C27: executionPlan.phases lists the phases in strictly ascending phase  *)
(* number, for every order of the tasks in the input, also when a          *)
(* dependent task is listed before the task it depends on.                 *)
(***************************************************************************)
C27_PlanPhasesAscending ==
    (op \in {"generateExecutionPlan", "execute"} /\ outcome = "returned") =>
        \A k \in 1..(Len(executionPlan.phases) - 1) :
            executionPlan.phases[k].phase < executionPlan.phases[k + 1].phase

(***************************************************************************)
(* C29: stage barrier in prodWorkflow.  The artifact-publishing workflow   *)
(* is started only after every agent workflow launched in phase 3 has      *)
(* settled, fulfilled or rejected, under every completion order; a         *)
(* rejected agent workflow does not abort the orchestration and its        *)
(* category contributes an empty result list; no agent workflow is         *)
(* launched at all when enableTaskExecution is false.                      *)
(***************************************************************************)
Launched(c) == steps[c] # "idle"

C29_StageBarrier ==
    /\ outcome # "thrown"
    /\ op = "prodWorkflow.phase4" =>
           \A c \in DOMAIN steps :
               /\ Launched(c) <=> Len(categoryTasks(tasks, c, 1)) > 0
               /\ Launched(c) => steps[c] \in {"returned", "rejected"}
               /\ steps[c] = "rejected" => executionResults[1][c] = <<>>
               /\ steps[c] = "returned" => executionResults[1][c] = stepResults[c]
    \* a rejection leaves the barrier open to the other workflows' settling
    /\ (op = "prodWorkflow.phase3" /\ allSettled(steps)) => ENABLED CollectResults
    /\ (op # "none" /\ ~executionConfig.enableTaskExecution) =>
           /\ op = "prodWorkflow.skipped"
           /\ steps = <<>>
           /\ calls = <<>>

\* the design workflow was rejected while the frontend workflow was still
\* running; publishing started after the frontend workflow had returned
C29_Witness ==
    /\ op = "prodWorkflow.phase4"
    /\ steps["design"] = "rejected"
    /\ steps["frontend"] = "returned"
    /\ executionResults[1]["design"] = <<>>
    /\ Len(executionResults[1]["frontend"]) = 2

(***************************************************************************)
(* C28: no task is silently dropped by the execution coordinator.  In      *)
(* coordinateTaskExecutionStep, with task execution enabled, every task    *)
(* that passes the category and minimum-priority filters yields exactly    *)
(* one execution result, completed or failed, for every maxConcurrentTasks *)
(* and every number of distinct categories among the filtered tasks.       *)
(***************************************************************************)
PassesFilters(i) ==
    /\ executionConfig.categories # <<>> =>
           \E k \in 1..Len(executionConfig.categories[1]) :
               executionConfig.categories[1][k] = tasks[i].category
    /\ executionConfig.priority # <<>> =>
           priorityOrder(tasks[i].priority) >= priorityOrder(executionConfig.priority[1])

C28_NoTaskDropped ==
    (op = "coordinateTaskExecution" /\ outcome = "returned"
        /\ executionConfig.enableTaskExecution) =>
        \A i \in 1..Len(tasks) :
            PassesFilters(i) =>
                /\ Cardinality({r \in 1..Len(executionResults) :
                                   executionResults[r].taskId = tasks[i].id}) = 1
                /\ \A r \in 1..Len(executionResults) :
                       executionResults[r].taskId = tasks[i].id =>
                           executionResults[r].status \in {"completed", "failed"}

(***************************************************************************)
(* C30: publishing accounting.  In the artifact-publishing step an         *)
(* artifact is posted at most once per execution result and only for a     *)
(* result with status completed, an artifact and a matching task that has  *)
(* an issue number; a poster failure or exception becomes a publish result *)
(* with success false and never rejects the step; and the summary          *)
(* satisfies published <= successful and successful + failed = totalTasks  *)
(* = number of publish results.                                            *)
(***************************************************************************)
\* posting happens at most once per result and only where it may
PostsOnlyPublishable ==
    \A r \in 1..Len(posts) :
        /\ posts[r] <= 1
        /\ posts[r] = 1 =>
               /\ allResults[r].status = "completed"
               /\ allResults[r].artifact # <<>>
               /\ \E i \in 1..Len(tasks) :
                      /\ tasks[i].id = allResults[r].taskId
                      /\ tasks[i].issueNumber # <<>>

\* a poster failure or exception gives success false and no rejection
PosterFailureContained ==
    /\ outcome # "thrown"
    /\ \A r \in 1..Len(publishCalls) :
           /\ publishCalls[r] \in {"failed", "thrown"} =>
                  /\ publishResults[r] # <<>>
                  /\ publishResults[r][1].success = FALSE
           /\ publishCalls[r] = "posted" => publishResults[r][1].success = TRUE
    /\ (outcome = "pending" /\ \A r \in 1..Len(publishCalls) : publishCalls[r] # "posting")
           => ENABLED PublishingReturns

SkippedResults ==
    Cardinality({r \in 1..Len(allResults) : allResults[r].status = "skipped"})

C30_PublishingAccounting ==
    op = "artifact-publishing" =>
        /\ PostsOnlyPublishable
        /\ PosterFailureContained
        /\ outcome = "returned" =>
               /\ publishSummary.published <= publishSummary.successful
               /\ publishSummary.successful + publishSummary.failed
                      = publishSummary.totalTasks
               /\ publishSummary.totalTasks = Len(publishResults)

\* the same with the skipped results counted: they are neither successful
\* nor failed
C30_PublishingAccountingWithSkipped ==
    op = "artifact-publishing" =>
        /\ PostsOnlyPublishable
        /\ PosterFailureContained
        /\ outcome = "returned" =>
               /\ publishSummary.published <= publishSummary.successful
               /\ publishSummary.successful + publishSummary.failed + SkippedResults
                      = publishSummary.totalTasks
               /\ publishSummary.successful + publishSummary.failed
                      <= publishSummary.totalTasks
               /\ publishSummary.totalTasks = Len(publishResults)

\* of two completed results with an artifact one was posted and the poster
\* threw for the other; the step returned
C30_Witness ==
    /\ op = "artifact-publishing"
    /\ outcome = "returned"
    /\ Len(allResults) = 2
    /\ publishCalls = <<"posted", "thrown">>
    /\ posts = <<1, 1>>
    /\ publishSummary =
           [totalTasks |-> 2, successful |-> 2, failed |-> 0, published |-> 1]

====
